---- MODULE Spec2Model ----
(***************************************************************************)
(* Harvest coordinators (fetch_perenual, seed_plants), the run ledger and  *)
(* the merge engine (enrich_plants) of loambase, as state machines.        *)
(*                                                                         *)
(* One step of an invocation is the code between two awaits that commit:   *)
(* the guard query, the last-run query, the insert-and-commit of the Run,  *)
(* one page (external call, inserts, commit), the terminal commit, the     *)
(* notification helper, the top-level exception handler.                   *)
(***************************************************************************)
EXTENDS Integers, Sequences, FiniteSets, TLC

\* ---------------------------------------------------------------- bounds
\* Worker slots that can run invocations concurrently.
NProcs == 2
\* Invocations the schedule or an operator may start (each can be followed
\* by the retries of _RETRY_HOURS_UTC).
MaxRuns == 2
\* Hours the clock may advance.
MaxTime == 3
\* Environment faults (a crash, an upstream error, a failing query) per run
\* of the model.
MaxFaults == 1
\* Pages of the upstream species list (last_page of the API response).
LastPage == 3
\* Species per list page.
ItemsPerPage == 2
\* Requests one invocation may spend (scaled down from the code's 95).
REQUEST_BUDGET == 2

\* Source rows of one source linked to the Canonical Record.
MaxSourceRows == 2
\* Distinct values a source column can carry.
MaxValue == 2
\* Items of a list value.
MaxItems == 2
\* Distinct words (up to letter case) the items of a list are drawn from.
MaxWord == 3
\* Characters of a raw source string.
MaxRawLen == 4
\* Characters of a raw hardiness-zone string.
\* lengths, in centimetres, written with the unit cm or m
MaxCentimetres == 1920
\* the numbers of ranges, of 'x' strings and of lengths in inches or feet
MaxOperand == 12
\* the ids of the Permapeople catalog, and how many a list page holds
MaxCatalog == 3
PP_PAGE_SIZE == 2
\* the versions an upstream item goes through, and how often the catalog
\* changes
MaxVersion == 2
MaxChanges == 1
\* the values an image_url takes
MaxImage == 2
MaxZoneLen == 5

\* ------------------------------------------------------ program constants
\* _STALE_THRESHOLD = timedelta(hours=2); the clock counts hours.
ERROR_DETAIL_LIMIT == 4000

\* the lengths str(exc) and traceback.format_exc() are drawn from
ErrorLengths == {1, ERROR_DETAIL_LIMIT, ERROR_DETAIL_LIMIT + 1}

STALE_THRESHOLD == 2
\* _RETRY_HOURS_UTC = [6, 9, 12]
RETRY_HOURS_UTC == <<6, 9, 12>>

\* priority = rule.source_priority or ["permapeople", "perenual"]
DEFAULT_PRIORITY == <<"permapeople", "perenual">>

\* the source_priority the migration seeds for height_inches
HEIGHT_PRIORITY == <<"permapeople">>

\* Fields with an EnrichmentRule: image_url (both sources, no normalizer),
\* height_inches (permapeople, normalized), bloom_season (no entry in
\* SOURCE_FIELD_MAP). cultivar_name has no rule.
RuledFields == {"image_url", "height_inches", "bloom_season"}

\* the order in which the rules are seeded
SEEDED_ORDER == <<"image_url", "bloom_season", "height_inches">>

NULL == 0 - 1

\* An Optional[list] or Optional[tuple]: None, or the value.
None == <<>>
Some(v) == <<v>>

HarvestJobs == {"fetch_perenual", "seed_plants"}
LedgerJobs == {"fetch_permapeople", "enrich_plants"}
Jobs == HarvestJobs \cup LedgerJobs
SourceNames == {"permapeople", "perenual"}
Values == 1..MaxValue

Procs == 1..NProcs
Pages == 1..LastPage
SpeciesIds == 1..(LastPage * ItemsPerPage)

\* Species whose detail carries a watering value _map_water cannot map.
UnmappableIds == {1}

VARIABLES
    now,             \* datetime.now(timezone.utc), in hours
    seeder_runs,     \* table seeder_runs, in insertion order
    perenual_plants, \* table perenual_plants: rows per perenual_id
    plants,          \* table plants, rows with source = "perenual", by
                     \* external_id: "absent", "stub" (water_needs NULL), "full"
    inv,             \* per worker slot: the invocation it runs
    queue,           \* ARQ jobs enqueued by _handle_quota_not_reset
    emails,          \* send_email calls: [kind, run]
    obs,             \* per SeederRun row, what its invocation was given and
                     \* did (observations, not columns)
    faults,          \* environment faults injected so far
    data_source_runs,\* table data_source_runs, in insertion order
    plant,           \* one Canonical Record: a merged field and data_sources
    permapeople_rows,\* image_url of each permapeople_plants row linked to it
    permapeople_height, \* height of each of those rows (None or Some(raw))
    rules_order,     \* the ruled field names, as select(EnrichmentRule)
                     \* returns them
    perenual_rows,   \* image_url of each perenual_plants row linked to it
    rule,            \* EnrichmentRule.source_priority of that field
    arg,             \* the argument a normalizer or strategy is called with
    out,             \* what the call returned
    pp_inv,          \* the fetch_permapeople invocation, page by page
    upstream,        \* the Permapeople catalog: per id its version, image
                     \* and the time it last changed
    permapeople_plants, \* table permapeople_plants, by permapeople_id
    canonical,       \* table plants with the names matching goes by
    pp_obs           \* per DataSourceRun row of fetch_permapeople, what its
                     \* invocation was given and did (observations)

\* what only fetch_perenual and seed_plants touch
harvestOnly == <<seeder_runs, perenual_plants, plants, queue, obs>>

\* what only fetch_permapeople and enrich_plants touch
ledgerOnly ==
    <<data_source_runs, plant, permapeople_rows, permapeople_height,
      perenual_rows, rule, rules_order>>

\* a normalizer or strategy function called on its own
pureOnly == <<arg, out>>

\* what only the page-by-page model of fetch_permapeople touches
catalogOnly == <<pp_inv, upstream, permapeople_plants, canonical, pp_obs>>

vars == <<now, inv, emails, faults, harvestOnly, ledgerOnly, pureOnly, catalogOnly>>

\* ------------------------------------------------------------ upstream
\* fetch_species_list(page)["data"]: the ids on a page; empty past the end.
SpeciesOnPage(p) ==
    IF p \in Pages
    THEN { id \in SpeciesIds : (p - 1) * ItemsPerPage < id /\ id <= p * ItemsPerPage }
    ELSE {}

\* the ids of a set in ascending order
RECURSIVE Ascending(_)
Ascending(S) ==
    IF S = {} THEN <<>>
    ELSE LET m == CHOOSE x \in S : \A y \in S : x <= y
         IN <<m>> \o Ascending(S \ {m})

\* _plant_kwargs(detail)["water_needs"] once the row is written
Detail(id) == IF id \in UnmappableIds THEN "stub" ELSE "full"

\* ------------------------------------------------------------ DB helpers
\* a guard that never lets a running row expire
IsFreshForever(row, t) == row.status = "running"

IsFresh(row, t) == row.started_at >= t - STALE_THRESHOLD

\* a guard that finds no active run
GetActiveRunBlind(runs, t) == FALSE

\* _get_active_run: a running SeederRun started within the last 2 hours.
GetActiveRun(runs, t) ==
    \E k \in 1..Len(runs) : runs[k].status = "running" /\ IsFresh(runs[k], t)

\* is_source_running: a running DataSourceRun of the source started within
\* the last 2 hours.
IsSourceRunning(runs, source, t) ==
    \E k \in 1..Len(runs) :
        /\ runs[k].source = source
        /\ runs[k].status = "running"
        /\ IsFresh(runs[k], t)

\* _get_last_run: ORDER BY started_at DESC LIMIT 1; rows are appended in
\* started_at order, so it is the last row (0 when the table is empty).
GetLastRun(runs) == Len(runs)

\* if last and last.status == "complete": return
CatalogComplete(runs) ==
    GetLastRun(runs) # 0 /\ runs[GetLastRun(runs)].status = "complete"

\* a harvester that always starts over
StartPageFromOne(runs) == 1

\* start_page = (last.current_page + 1) if last else 1
StartPage(runs) ==
    IF GetLastRun(runs) = 0 THEN 1 ELSE runs[GetLastRun(runs)].current_page + 1

\* _perenual_plant_exists
PerenualPlantExists(tbl, id) == tbl[id] > 0

\* _plant_exists (seed_plants)
PlantExists(tbl, id) == tbl[id] # "absent"

\* _get_plants_to_backfill: perenual plants with water_needs IS NULL
PlantsToBackfill(tbl) == { id \in SpeciesIds : tbl[id] = "stub" }

\* a budget check that is one request late
BudgetExhaustedLate(used) == used > REQUEST_BUDGET

\* the budget check before each external call
BudgetExhausted(used) == used >= REQUEST_BUDGET

\* run.requests_used == 0 on a rate-limited list call
IsQuotaNotReset(used) == used = 0

\* seed_plants after _backfill_nulls returned True in phase 1:
\* if run.requests_used < _REQUEST_BUDGET: quota not reset
BackfillQuotaNotReset(used) == used < REQUEST_BUDGET

\* a handler that schedules a retry whenever it has a scheduler
RetriesUnbounded(redis, retry_count) == redis

\* a handler that never schedules a retry
RetriesNever(redis, retry_count) == FALSE

\* if redis and retry_count < len(_RETRY_HOURS_UTC)
RetriesRemain(redis, retry_count) == redis /\ retry_count < Len(RETRY_HOURS_UTC)

\* -------------------------------------------------------- invocation state
\* stats = {"enriched": 0, "unchanged": 0, "skipped": 0, "errors": 0,
\*          "fields_filled": 0}
ZeroStats ==
    [enriched |-> 0, unchanged |-> 0, skipped |-> 0, errors |-> 0, fields_filled |-> 0]

\* unmapped_values = {}: occurrences by <<field name, key>>
NoUnmapped == [k \in {} |-> 0]

IdleInv ==
    [pc |-> "idle", job |-> "none", retry_count |-> 0, redis |-> FALSE,
     chain |-> 0, run |-> 0, page |-> 0, kind |-> "none",
     todo |-> {}, final |-> FALSE, last |-> 0, stats |-> ZeroStats,
     unmapped |-> NoUnmapped]

\* The invocation holds a Run row.
Executing(i) == inv[i].run # 0

\* Row k is held by a live invocation.
Live(k) == \E i \in Procs : inv[i].job \in HarvestJobs /\ inv[i].run = k

\* no function is being called on its own
NoCall == [fn |-> "none"]

\* the ids of the Permapeople catalog
PpIds == 1..MaxCatalog

\* no fetch_permapeople invocation in progress
IdlePp ==
    [pc |-> "idle", run |-> 0, force_full |-> FALSE, last_id |-> 0,
     since |-> NULL,
     stats |-> [new_species |-> 0, updated |-> 0, gap_filled |-> 0,
                unchanged |-> 0, skipped |-> 0, errors |-> 0,
                new_plants_created |-> 0, matched_existing |-> 0]]

\* no row for a permapeople_id
NoRow == [stored |-> FALSE, version |-> 0, image |-> 0, fetched_at |-> 0, plant_id |-> 0]

\* an id the catalog does not list
NoItem == [live |-> FALSE, version |-> 0, image |-> 0, changed_at |-> NULL]

\* the page-by-page model of fetch_permapeople at rest
NoCatalog ==
    /\ pp_inv = IdlePp
    /\ upstream = [items |-> [id \in PpIds |-> NoItem], changes |-> 0]
    /\ permapeople_plants = [id \in PpIds |-> NoRow]
    /\ canonical = <<>>
    /\ pp_obs = <<>>

\* no run, no row, nobody at work
InitTables ==
    /\ now = 0
    /\ data_source_runs = <<>>
    /\ seeder_runs = <<>>
    /\ perenual_plants = [id \in SpeciesIds |-> 0]
    /\ plants = [id \in SpeciesIds |-> "absent"]
    /\ inv = [i \in Procs |-> IdleInv]
    /\ queue = {}
    /\ emails = {}
    /\ obs = <<>>
    /\ faults = 0

InitHarvest == NoCatalog /\ InitTables

\* A Canonical Record without an image that a perenual species was matched
\* to by scientific name, and the image_url rule as the migration seeds it.
Init ==
    /\ InitHarvest
    /\ arg = NoCall
    /\ out = NoCall
    /\ plant = [image_url |-> NULL, height_inches |-> NULL, bloom_season |-> NULL,
                cultivar_name |-> 1, data_sources |-> {}]
    /\ permapeople_rows = <<>>
    /\ permapeople_height = <<>>
    /\ perenual_rows = <<1>>
    /\ rule = <<"perenual", "permapeople">>
    /\ rules_order = SEEDED_ORDER

\* sequences of at most n elements of S
SeqUpTo(S, n) == UNION { [1..k -> S] : k \in 0..n }

\* source_priority as an administrator can store it: empty, or source
\* names in some order.
PriorityLists ==
    { q \in SeqUpTo(SourceNames, 2) : \A a, b \in 1..Len(q) : a # b => q[a] # q[b] }

\* Any Canonical Record with any linked source rows and any rule.
InitMerge ==
    /\ InitHarvest
    /\ arg = NoCall
    /\ out = NoCall
    /\ plant \in [image_url : Values \cup {NULL}, height_inches : {NULL},
                  bloom_season : {NULL}, cultivar_name : {1}, data_sources : {{}}]
    /\ permapeople_rows \in SeqUpTo(Values \cup {NULL}, MaxSourceRows)
    /\ permapeople_height = [k \in 1..Len(permapeople_rows) |-> None]
    /\ perenual_rows \in SeqUpTo(Values \cup {NULL}, MaxSourceRows)
    /\ rule \in PriorityLists
    /\ rules_order = SEEDED_ORDER

\* --------------------------------------------------------------- writes
SetInv(i, r) == inv' = [inv EXCEPT ![i] = r]

\* run.<field> = ...; await db.commit()
UpdateRun(k, r) == seeder_runs' = [seeder_runs EXCEPT ![k] = r]

\* send_email(subject, body), tagged with the sender's Run
Email(i, kind) == [kind |-> kind, job |-> inv[i].job, run |-> inv[i].run]

\* the invocation of row k attempted n more external calls
Called(o, k, n) == [o EXCEPT ![k].calls = @ + n]

\* n more external calls of the invocation of row k returned
Succeeded(o, k, n) == [o EXCEPT ![k].succeeded = @ + n]

\* ------------------------------------------------------------ scheduling
\* Runs started by a trigger rather than by a queued retry.
FreshRuns(o) == Cardinality({ k \in 1..Len(o) : o[k].retry_count = 0 })

\* The cron, the admin endpoint (both with ctx["redis"]) or a script
\* (ctx = {}) starts a job with retry_count = 0.
Trigger(i, jobs, ctxs) ==
    /\ inv[i].pc = "idle"
    /\ FreshRuns(obs) + Len(data_source_runs) < MaxRuns
    /\ \E job \in jobs, redis \in ctxs :
         /\ job \in LedgerJobs => ~redis
         /\ SetInv(i, [IdleInv EXCEPT
                         !.pc = IF job \in HarvestJobs THEN "guard" ELSE "l_guard",
                         !.job = job, !.redis = redis])
    /\ UNCHANGED <<now, seeder_runs, perenual_plants, plants, queue, emails, obs, faults, ledgerOnly, pureOnly, catalogOnly>>

\* The worker picks up a retry enqueued by _handle_quota_not_reset.
RunQueued(i) ==
    /\ inv[i].pc = "idle"
    /\ \E q \in queue :
         /\ queue' = queue \ {q}
         /\ SetInv(i, [IdleInv EXCEPT !.pc = "guard", !.job = q.job,
                                      !.redis = TRUE,
                                      !.retry_count = q.retry_count,
                                      !.chain = q.chain])
    /\ UNCHANGED <<now, seeder_runs, perenual_plants, plants, emails, obs, faults, ledgerOnly, pureOnly, catalogOnly>>

\* ---------------------------------------------- fetch_perenual, seed_plants
\* if await _get_active_run(db): return
Guard(i) ==
    /\ inv[i].pc = "guard"
    /\ IF GetActiveRun(seeder_runs, now)
       THEN SetInv(i, IdleInv)
       ELSE SetInv(i, [inv[i] EXCEPT !.pc = "last"])
    /\ UNCHANGED <<now, seeder_runs, perenual_plants, plants, queue, emails, obs, faults, ledgerOnly, pureOnly, catalogOnly>>

\* last = await _get_last_run(db); skip when complete, else the start page
ReadLast(i) ==
    /\ inv[i].pc = "last"
    /\ IF CatalogComplete(seeder_runs)
       THEN SetInv(i, IdleInv)
       ELSE SetInv(i, [inv[i] EXCEPT !.pc = "start",
                                     !.page = StartPage(seeder_runs),
                                     !.last = Len(seeder_runs)])
    /\ UNCHANGED <<now, seeder_runs, perenual_plants, plants, queue, emails, obs, faults, ledgerOnly, pureOnly, catalogOnly>>

\* run = SeederRun(status="running", current_page=start_page - 1, ...);
\* db.add(run); await db.commit()
NewRun(i) ==
    [status |-> "running",
     current_page |-> inv[i].page - 1, total_pages |-> NULL,
     records_synced |-> 0, requests_used |-> 0,
     started_at |-> now, error_message |-> "none", error_len |-> 0]

\* What is noted about the invocation of a new row k: its arguments, the
\* row it resumed from (and whether that row's invocation had ended), the
\* first page it will ask for, the plants table it found.
NewObs(i, k) ==
    [job |-> inv[i].job, retry_count |-> inv[i].retry_count,
     redis |-> inv[i].redis,
     chain |-> IF inv[i].chain = 0 THEN k ELSE inv[i].chain,
     start_page |-> inv[i].page,
     prev |-> inv[i].last,
     prev_stopped |-> inv[i].last # 0 /\ ~Live(inv[i].last),
     plants_before |-> plants,
     first_page |-> 0, calls |-> 0, succeeded |-> 0, rate_limited |-> FALSE,
     detailed |-> {}, cut_page |-> 0, cut_inserted |-> {},
     enqueued |-> FALSE, enqueue_failed |-> FALSE, raised |-> FALSE,
     crashed |-> FALSE]

StartRun(i) ==
    /\ inv[i].pc = "start"
    /\ seeder_runs' = Append(seeder_runs, NewRun(i))
    /\ obs' = Append(obs, NewObs(i, Len(seeder_runs) + 1))
    /\ SetInv(i, [inv[i] EXCEPT
                    !.pc = IF inv[i].job = "seed_plants" THEN "backfill" ELSE "loop",
                    !.run = Len(seeder_runs) + 1])
    /\ UNCHANGED <<now, perenual_plants, plants, queue, emails, faults, ledgerOnly, pureOnly, catalogOnly>>

\* The invocation of row k asked for list page p.
Listed(o, k, p) ==
    [o EXCEPT ![k].calls = @ + 1,
              ![k].first_page = IF @ = 0 THEN p ELSE @]

\* a failure that also rewinds the cursor
FailedRunRewound(row, why) ==
    [row EXCEPT !.status = "failed", !.error_message = why, !.current_page = 0]

\* run.status = "failed"; run.error_message = ...; await db.commit()
FailedRun(row, why) == [row EXCEPT !.status = "failed", !.error_message = why]

\* run.status = "complete"; await db.commit()
CompleteRun(row) == [row EXCEPT !.status = "complete"]

\* Top of the page loop: if run.requests_used >= _REQUEST_BUDGET: break,
\* then the finalise branch persists failed("Daily budget reached").
LoopBudget(i) ==
    /\ inv[i].pc = "loop"
    /\ BudgetExhausted(seeder_runs[inv[i].run].requests_used)
    /\ UpdateRun(inv[i].run, FailedRun(seeder_runs[inv[i].run], "budget"))
    /\ SetInv(i, [inv[i] EXCEPT !.pc = "notify", !.kind = "daily"])
    /\ UNCHANGED <<now, perenual_plants, plants, queue, emails, obs, faults, ledgerOnly, pureOnly, catalogOnly>>

\* fetch_species_list raises RateLimitError: the Run is persisted failed;
\* with no request used the quota handler runs, else the daily report.
LoopRateLimited(i) ==
    LET k == inv[i].run
        quota == IsQuotaNotReset(seeder_runs[k].requests_used)
    IN /\ inv[i].pc = "loop"
       /\ ~BudgetExhausted(seeder_runs[k].requests_used)
       /\ UpdateRun(k, FailedRun(seeder_runs[k],
                         IF quota THEN "quota_not_reset" ELSE "rate_limited"))
       /\ obs' = [Listed(obs, k, inv[i].page) EXCEPT ![k].rate_limited = TRUE]
       /\ SetInv(i, [inv[i] EXCEPT !.pc = "notify",
                                   !.kind = IF quota THEN "quota" ELSE "daily"])
       /\ UNCHANGED <<now, perenual_plants, plants, queue, emails, faults, ledgerOnly, pureOnly, catalogOnly>>

\* The species of page p seed_plants would call fetch_species_detail for,
\* in order.
ToDetail(tbl, p) ==
    Ascending({ id \in SpeciesOnPage(p) : ~PlantExists(tbl, id) })

\* How many external calls of the page in progress can have returned when
\* a call raises: none when the failing call is the list call (or a
\* backfill call, each of which is committed on its own); in seed_plants
\* the list call and j detail calls when the failing call is detail call
\* j + 1 of the page, which the budget check must have let through.
ReturnedBeforeError(i) ==
    LET used == seeder_runs[inv[i].run].requests_used
    IN {0} \cup
       (IF inv[i].pc = "loop" /\ inv[i].job = "seed_plants"
        THEN { 1 + j : j \in { n \in 0..ItemsPerPage :
                                 /\ n < Len(ToDetail(plants, inv[i].page))
                                 /\ ~BudgetExhausted(used + 1 + n) } }
        ELSE {})

\* An external call raises something other than RateLimitError (HTTP 5xx,
\* timeout): control passes to the top-level handler, whose rollback
\* discards the page in progress: the Plants added and the requests_used
\* counted since the last commit.
LoopError(i) ==
    /\ inv[i].pc \in {"loop", "backfill_item"}
    /\ ~BudgetExhausted(seeder_runs[inv[i].run].requests_used)
    /\ faults < MaxFaults
    /\ faults' = faults + 1
    /\ \E ok \in ReturnedBeforeError(i) :
         obs' = [Succeeded(Called(obs, inv[i].run, ok + 1), inv[i].run, ok) EXCEPT
                   ![inv[i].run].detailed =
                       @ \cup (IF ok = 0 THEN {}
                               ELSE { ToDetail(plants, inv[i].page)[n] : n \in 1..ok })]
    /\ SetInv(i, [inv[i] EXCEPT !.pc = "handler"])
    /\ UNCHANGED <<now, seeder_runs, perenual_plants, plants, queue, emails, ledgerOnly, pureOnly, catalogOnly>>

\* species on the page without a perenual_plants row
NewOnPage(tbl, p) == { id \in SpeciesOnPage(p) : ~PerenualPlantExists(tbl, id) }

\* db.add(PerenualPlant(...)) for each new species of the page
InsertPage(tbl, p) ==
    [id \in SpeciesIds |-> IF id \in NewOnPage(tbl, p) THEN tbl[id] + 1 ELSE tbl[id]]

\* no Plant is created for a new species
InsertStubsNone(ptbl, tbl, p) == tbl

\* Plant(source="perenual", ...) created for a new species with no
\* canonical match; it carries no water_needs.
InsertStubs(ptbl, tbl, p) ==
    [id \in SpeciesIds |->
        IF id \in NewOnPage(ptbl, p) /\ tbl[id] = "absent" THEN "stub" ELSE tbl[id]]

\* run.requests_used += 1; run.total_pages = page_data["last_page"]
ListedRun(row) ==
    [row EXCEPT !.requests_used = @ + 1,
                !.total_pages = IF @ = NULL THEN LastPage ELSE @]

\* run.current_page = page; run.records_synced += page_synced
PageDoneRun(row, p, synced) ==
    [row EXCEPT !.current_page = p, !.records_synced = @ + synced]

\* fetch_perenual, one list page: an empty page ends the catalog (the Run
\* is persisted complete at once); otherwise the page's new species are
\* inserted and committed with the page cursor.
LoopPage(i) ==
    LET k == inv[i].run
        p == inv[i].page
        row == ListedRun(seeder_runs[k])
    IN /\ inv[i].pc = "loop"
       /\ inv[i].job = "fetch_perenual"
       /\ ~BudgetExhausted(seeder_runs[k].requests_used)
       /\ obs' = Succeeded(Listed(obs, k, p), k, 1)
       /\ IF SpeciesOnPage(p) = {}
          THEN /\ UpdateRun(k, CompleteRun(row))
               /\ SetInv(i, [inv[i] EXCEPT !.pc = "notify", !.kind = "complete"])
               /\ UNCHANGED <<perenual_plants, plants>>
          ELSE /\ UpdateRun(k, PageDoneRun(row, p, Cardinality(NewOnPage(perenual_plants, p))))
               /\ perenual_plants' = InsertPage(perenual_plants, p)
               /\ plants' = InsertStubs(perenual_plants, plants, p)
               /\ SetInv(i, IF p >= LastPage
                            THEN [inv[i] EXCEPT !.pc = "final"]
                            ELSE [inv[i] EXCEPT !.page = p + 1])
       /\ UNCHANGED <<now, queue, emails, faults, ledgerOnly, pureOnly, catalogOnly>>

\* seed_plants, the species of one page in order: budget check, skip of
\* existing plants, detail call.  rl = n > 0 makes the n-th detail call of
\* the page raise RateLimitError.
RECURSIVE SeedItems(_, _, _, _, _, _)
SeedItems(ids, tbl, used, synced, calls, rl) ==
    IF ids = <<>>
    THEN [plants |-> tbl, used |-> used, synced |-> synced, calls |-> calls,
          budget_hit |-> FALSE, rate_limited |-> FALSE]
    ELSE IF BudgetExhausted(used)
    THEN [plants |-> tbl, used |-> used, synced |-> synced, calls |-> calls,
          budget_hit |-> TRUE, rate_limited |-> FALSE]
    ELSE IF PlantExists(tbl, Head(ids))
    THEN SeedItems(Tail(ids), tbl, used, synced, calls, rl)
    ELSE IF rl = 1
    THEN [plants |-> tbl, used |-> used, synced |-> synced, calls |-> calls + 1,
          budget_hit |-> TRUE, rate_limited |-> TRUE]
    ELSE SeedItems(Tail(ids), [tbl EXCEPT ![Head(ids)] = Detail(Head(ids))],
                   used + 1, synced + 1, calls + 1,
                   IF rl = 0 THEN 0 ELSE rl - 1)

\* the species the page loop inserted: absent before, present after
Inserted(before, after) ==
    { id \in SpeciesIds : before[id] = "absent" /\ after[id] # "absent" }

\* the species of page p fetch_species_detail was called for, given what
\* SeedItems returned: those inserted and, after a RateLimitError, the
\* first one still absent
DetailedOnPage(p, before, r) ==
    LET left == { id \in SpeciesOnPage(p) : r.plants[id] = "absent" }
    IN Inserted(before, r.plants)
       \cup (IF r.rate_limited
             THEN { id \in left : \A other \in left : id <= other }
             ELSE {})

\* seed_plants, one list page with its detail calls.  An empty page ends
\* the catalog; a page cut short commits its inserts without moving the
\* cursor; a whole page commits the cursor.
SeedPage(i) ==
    LET k == inv[i].run
        p == inv[i].page
        row == ListedRun(seeder_runs[k])
    IN /\ inv[i].pc = "loop"
       /\ inv[i].job = "seed_plants"
       /\ ~BudgetExhausted(seeder_runs[k].requests_used)
       /\ IF SpeciesOnPage(p) = {}
          THEN /\ UpdateRun(k, row)
               /\ obs' = Succeeded(Listed(obs, k, p), k, 1)
               /\ SetInv(i, [inv[i] EXCEPT !.pc = "backfill", !.final = TRUE])
               /\ UNCHANGED plants
          ELSE \E rl \in 0..ItemsPerPage :
                 LET r == SeedItems(Ascending(SpeciesOnPage(p)), plants,
                                    row.requests_used, 0, 0, rl)
                 IN /\ plants' = r.plants
                    /\ obs' = [Succeeded(Called(Listed(obs, k, p), k, r.calls), k,
                                         r.used - seeder_runs[k].requests_used) EXCEPT
                                 ![k].rate_limited = @ \/ r.rate_limited,
                                 ![k].detailed = @ \cup DetailedOnPage(p, plants, r),
                                 ![k].cut_page = IF r.budget_hit THEN p ELSE @,
                                 ![k].cut_inserted =
                                     IF r.budget_hit THEN Inserted(plants, r.plants) ELSE @]
                    /\ IF r.budget_hit
                       THEN /\ UpdateRun(k, [row EXCEPT !.requests_used = r.used,
                                                        !.records_synced = @ + r.synced])
                            /\ SetInv(i, [inv[i] EXCEPT !.pc = "partial"])
                       ELSE /\ UpdateRun(k, PageDoneRun([row EXCEPT !.requests_used = r.used],
                                                        p, r.synced))
                            /\ SetInv(i, IF p >= LastPage
                                         THEN [inv[i] EXCEPT !.pc = "backfill", !.final = TRUE]
                                         ELSE [inv[i] EXCEPT !.page = p + 1])
       /\ UNCHANGED <<now, perenual_plants, queue, emails, faults, ledgerOnly, pureOnly, catalogOnly>>

\* seed_plants after a page cut short: finalise with
\* failed("Daily budget reached").
PartialStop(i) ==
    /\ inv[i].pc = "partial"
    /\ UpdateRun(inv[i].run, FailedRun(seeder_runs[inv[i].run], "budget"))
    /\ SetInv(i, [inv[i] EXCEPT !.pc = "notify", !.kind = "daily"])
    /\ UNCHANGED <<now, perenual_plants, plants, queue, emails, obs, faults, ledgerOnly, pureOnly, catalogOnly>>

\* Finalise with the catalog complete: run.status = "complete", commit.
Finalise(i) ==
    /\ inv[i].pc = "final"
    /\ UpdateRun(inv[i].run, CompleteRun(seeder_runs[inv[i].run]))
    /\ SetInv(i, [inv[i] EXCEPT !.pc = "notify", !.kind = "complete"])
    /\ UNCHANGED <<now, perenual_plants, plants, queue, emails, obs, faults, ledgerOnly, pureOnly, catalogOnly>>

\* ------------------------------------------------- seed_plants backfill
\* the plant _backfill_nulls takes next (ORDER BY Plant.id)
NextToBackfill(todo) == CHOOSE id \in todo : \A other \in todo : id <= other

\* where the invocation goes once _backfill_nulls returns False
AfterBackfill(r) ==
    IF r.final THEN [r EXCEPT !.pc = "final"] ELSE [r EXCEPT !.pc = "loop"]

\* to_backfill = await _get_plants_to_backfill(db)
BackfillQuery(i) ==
    /\ inv[i].pc = "backfill"
    /\ SetInv(i, IF PlantsToBackfill(plants) = {}
                 THEN AfterBackfill(inv[i])
                 ELSE [inv[i] EXCEPT !.pc = "backfill_item",
                                     !.todo = PlantsToBackfill(plants)])
    /\ UNCHANGED <<now, seeder_runs, perenual_plants, plants, queue, emails, obs, faults, ledgerOnly, pureOnly, catalogOnly>>

\* _backfill_nulls returns True on an exhausted budget: phase 1 persists
\* failed("... during backfill"), the final pass failed("Budget reached
\* during final backfill"); both send the daily report.
BackfillBudget(i) ==
    LET k == inv[i].run
    IN /\ inv[i].pc = "backfill_item"
       /\ BudgetExhausted(seeder_runs[k].requests_used)
       /\ UpdateRun(k, FailedRun(seeder_runs[k],
                         IF inv[i].final THEN "budget_final_backfill"
                                         ELSE "budget_backfill"))
       /\ SetInv(i, [inv[i] EXCEPT !.pc = "notify", !.kind = "daily"])
       /\ UNCHANGED <<now, perenual_plants, plants, queue, emails, obs, faults, ledgerOnly, pureOnly, catalogOnly>>

\* fetch_species_detail raises RateLimitError during backfill:
\* _backfill_nulls returns True with requests_used below the budget.
\* Phase 1 then takes the quota-not-reset branch whatever requests_used is;
\* the final pass reports a budget stop.
BackfillRateLimited(i) ==
    LET k == inv[i].run
        quota == ~inv[i].final /\ BackfillQuotaNotReset(seeder_runs[k].requests_used)
    IN /\ inv[i].pc = "backfill_item"
       /\ ~BudgetExhausted(seeder_runs[k].requests_used)
       /\ UpdateRun(k, FailedRun(seeder_runs[k],
                         IF inv[i].final THEN "budget_final_backfill"
                         ELSE IF quota THEN "rate_limited_backfill"
                         ELSE "budget_backfill"))
       /\ obs' = [Called(obs, k, 1) EXCEPT
                    ![k].rate_limited = TRUE,
                    ![k].detailed = @ \cup {NextToBackfill(inv[i].todo)}]
       /\ SetInv(i, [inv[i] EXCEPT !.pc = "notify",
                                   !.kind = IF quota THEN "quota" ELSE "daily"])
       /\ UNCHANGED <<now, perenual_plants, plants, queue, emails, faults, ledgerOnly, pureOnly, catalogOnly>>

\* One plant backfilled: detail fetched, fields set, committed.
BackfillItem(i) ==
    LET k == inv[i].run
        id == NextToBackfill(inv[i].todo)
        rest == inv[i].todo \ {id}
    IN /\ inv[i].pc = "backfill_item"
       /\ ~BudgetExhausted(seeder_runs[k].requests_used)
       /\ plants' = [plants EXCEPT ![id] = Detail(id)]
       /\ UpdateRun(k, [seeder_runs[k] EXCEPT !.requests_used = @ + 1,
                                              !.records_synced = @ + 1])
       /\ obs' = [Succeeded(Called(obs, k, 1), k, 1) EXCEPT
                    ![k].detailed = @ \cup {id}]
       /\ SetInv(i, IF rest = {}
                    THEN AfterBackfill([inv[i] EXCEPT !.todo = {}])
                    ELSE [inv[i] EXCEPT !.todo = rest])
       /\ UNCHANGED <<now, perenual_plants, queue, emails, faults, ledgerOnly, pureOnly, catalogOnly>>

\* ------------------------------------------------------- notifications
\* _notify_complete / _notify_daily: the report is sent and the
\* invocation returns.
NotifySummary(i) ==
    /\ inv[i].pc = "notify"
    /\ inv[i].kind \in {"complete", "daily"}
    /\ emails' = emails \cup {Email(i, inv[i].kind)}
    /\ SetInv(i, IdleInv)
    /\ UNCHANGED <<now, seeder_runs, perenual_plants, plants, queue, obs, faults, ledgerOnly, pureOnly, catalogOnly>>

\* _handle_quota_not_reset with a scheduler and retries left:
\* redis.enqueue_job(job, retry_count=retry_count + 1), no email.
QuotaEnqueue(i) ==
    LET k == inv[i].run
    IN /\ inv[i].pc = "notify"
       /\ inv[i].kind = "quota"
       /\ RetriesRemain(inv[i].redis, inv[i].retry_count)
       /\ queue' = queue \cup {[job |-> inv[i].job,
                                retry_count |-> inv[i].retry_count + 1,
                                chain |-> obs[k].chain]}
       /\ obs' = [obs EXCEPT ![k].enqueued = TRUE]
       /\ SetInv(i, IdleInv)
       /\ UNCHANGED <<now, seeder_runs, perenual_plants, plants, emails, faults, ledgerOnly, pureOnly, catalogOnly>>

\* _handle_quota_not_reset when enqueue_job raises: the except clause
\* falls through and the email goes out at once.
QuotaEnqueueFails(i) ==
    LET k == inv[i].run
    IN /\ inv[i].pc = "notify"
       /\ inv[i].kind = "quota"
       /\ RetriesRemain(inv[i].redis, inv[i].retry_count)
       /\ faults < MaxFaults
       /\ faults' = faults + 1
       /\ emails' = emails \cup {Email(i, "quota")}
       /\ obs' = [obs EXCEPT ![k].enqueue_failed = TRUE]
       /\ SetInv(i, IdleInv)
       /\ UNCHANGED <<now, seeder_runs, perenual_plants, plants, queue, ledgerOnly, pureOnly, catalogOnly>>

\* _handle_quota_not_reset with no scheduler or no retry left: the email.
QuotaEmail(i) ==
    /\ inv[i].pc = "notify"
    /\ inv[i].kind = "quota"
    /\ ~RetriesRemain(inv[i].redis, inv[i].retry_count)
    /\ emails' = emails \cup {Email(i, "quota")}
    /\ SetInv(i, IdleInv)
    /\ UNCHANGED <<now, seeder_runs, perenual_plants, plants, queue, obs, faults, ledgerOnly, pureOnly, catalogOnly>>

\* A query of a notification helper (_count_perenual_plants,
\* _get_first_run) raises: it is outside the helper's try, inside the
\* task's, so the top-level handler runs after the terminal commit.
NotifyRaises(i) ==
    /\ inv[i].pc = "notify"
    /\ inv[i].kind \in {"complete", "daily"}
       \/ ~RetriesRemain(inv[i].redis, inv[i].retry_count)
    /\ faults < MaxFaults
    /\ faults' = faults + 1
    /\ SetInv(i, [inv[i] EXCEPT !.pc = "handler"])
    /\ UNCHANGED <<now, seeder_runs, perenual_plants, plants, queue, emails, obs, ledgerOnly, pureOnly, catalogOnly>>

\* except Exception: rollback; run.status = "failed";
\* run.error_message = str(exc); commit; _notify_error; raise
Handler(i) ==
    LET k == inv[i].run
    IN /\ inv[i].pc = "handler"
       /\ \E n \in ErrorLengths :
            UpdateRun(k, [FailedRun(seeder_runs[k], "error") EXCEPT !.error_len = n])
       /\ emails' = emails \cup {Email(i, "error")}
       /\ obs' = [obs EXCEPT ![k].raised = TRUE]
       /\ SetInv(i, IdleInv)
       /\ UNCHANGED <<now, perenual_plants, plants, queue, faults, ledgerOnly, pureOnly, catalogOnly>>

\* ------------------------------------------------------------ normalizers
\* The characters raw strings are made of: a digit, the point, the hyphen,
\* an inequality sign, a blank, the letter x and a unit letter (f).
Chars == {"1", ".", "-", ">", " ", "x", "f"}

RawStrings == SeqUpTo(Chars, MaxRawLen)

\* the character at p, "" past the end
At(s, p) == IF p \in 1..Len(s) THEN s[p] ELSE ""

\* raw.strip()
RECURSIVE Strip(_)
Strip(s) ==
    IF s = <<>> THEN s
    ELSE IF Head(s) = " " THEN Strip(Tail(s))
    ELSE IF s[Len(s)] = " " THEN Strip(SubSeq(s, 1, Len(s) - 1))
    ELSE s

\* [\d.]+ from p, greedy: the index after the run (p when there is none)
RECURSIVE RunEnd(_, _)
RunEnd(s, p) == IF At(s, p) \in {"1", "."} THEN RunEnd(s, p + 1) ELSE p

\* \s* from p: the index after the blanks
RECURSIVE SkipBlanks(_, _)
SkipBlanks(s, p) == IF At(s, p) = " " THEN SkipBlanks(s, p + 1) ELSE p

\* the characters from..to-1
Piece(s, from, to) == SubSeq(s, from, to - 1)

\* float(tok) of a run of digits and points does not raise ValueError:
\* at least one digit, at most one point
FloatAccepts(tok) ==
    /\ \E j \in 1..Len(tok) : tok[j] = "1"
    /\ Cardinality({ j \in 1..Len(tok) : tok[j] = "." }) <= 1

\* float(raw) of a whole string: an optional sign, then such a run
FloatLiteral(s) ==
    LET body == IF At(s, 1) = "-" THEN Tail(s) ELSE s
    IN /\ body # <<>>
       /\ RunEnd(body, 1) = Len(body) + 1
       /\ FloatAccepts(body)

\* ^([\d.]+)\s*-\s*([\d.]+) : whether it matches and its two groups
RangeMatch(s) ==
    LET e1 == RunEnd(s, 1)
        a == SkipBlanks(s, e1)
        b == SkipBlanks(s, a + 1)
        e2 == RunEnd(s, b)
    IN [ok |-> e1 > 1 /\ At(s, a) = "-" /\ e2 > b,
        g1 |-> Piece(s, 1, e1), g2 |-> Piece(s, b, e2)]

\* raw.lower().split("x")[0]
RECURSIVE BeforeX(_)
BeforeX(s) ==
    IF s = <<>> \/ Head(s) = "x" THEN <<>> ELSE <<Head(s)>> \o BeforeX(Tail(s))

\* parse_measurement_to_inches: float(group 1) is guarded, float(group 2)
\* is not.
parse_measurement_to_inches(raw) ==
    LET s0 == Strip(raw)
        s == IF \E j \in 1..Len(s0) : s0[j] = "x" THEN Strip(BeforeX(s0)) ELSE s0
        m == RangeMatch(s)
    IN IF RunEnd(s, 1) = 1 THEN "null"
       ELSE IF ~FloatAccepts(Piece(s, 1, RunEnd(s, 1))) THEN "null"
       ELSE IF m.ok /\ ~FloatAccepts(m.g2) THEN "raises"
       ELSE "value"

\* normalize_soil_ph: the inequality branches call float() unguarded.
normalize_soil_ph(raw) ==
    LET s == Strip(raw)
        b == SkipBlanks(s, 2)
        m == RangeMatch(s)
    IN IF At(s, 1) = ">" /\ RunEnd(s, b) > b
       THEN IF FloatAccepts(Piece(s, b, RunEnd(s, b))) THEN "value" ELSE "raises"
       ELSE IF m.ok
       THEN IF FloatAccepts(m.g1) /\ FloatAccepts(m.g2) THEN "value" ELSE "null"
       ELSE IF FloatLiteral(s) THEN "value" ELSE "null"

\* normalize_germination_time: both branches call float() unguarded.
normalize_germination_time(raw) ==
    LET s == Strip(raw)
        m == RangeMatch(s)
    IN IF m.ok
       THEN IF FloatAccepts(m.g1) /\ FloatAccepts(m.g2) THEN "value" ELSE "raises"
       ELSE IF RunEnd(s, 1) > 1
       THEN IF FloatAccepts(Piece(s, 1, RunEnd(s, 1))) THEN "value" ELSE "raises"
       ELSE "null"

\* ([\d.]+)\s*-?\s*([\d.]+)?\s*[fF] tried at p: whether it matches and
\* its groups (group 2 is empty when absent)
TempMatch(s, p) ==
    LET e1 == RunEnd(s, p)
        a == SkipBlanks(s, e1)
        b == SkipBlanks(s, IF At(s, a) = "-" THEN a + 1 ELSE a)
        e2 == RunEnd(s, b)
        c == SkipBlanks(s, e2)
    IN [ok |-> e1 > p /\ At(s, c) = "f",
        g1 |-> Piece(s, p, e1), g2 |-> Piece(s, b, e2)]

\* normalize_germination_temp: _TEMP_F_RE.search takes the leftmost match;
\* float() of its groups and of the bare range is unguarded.  (The strings
\* of the model carry no letter c, so _TEMP_C_RE never matches.)
normalize_germination_temp(raw) ==
    LET s == Strip(raw)
        hits == { p \in 1..Len(s) : TempMatch(s, p).ok }
        m == RangeMatch(s)
    IN IF hits # {}
       THEN LET f == TempMatch(s, CHOOSE p \in hits : \A q \in hits : p <= q)
            IN IF FloatAccepts(f.g1) /\ (f.g2 = <<>> \/ FloatAccepts(f.g2))
               THEN "value" ELSE "raises"
       ELSE IF m.ok
       THEN IF FloatAccepts(m.g1) /\ FloatAccepts(m.g2) THEN "value" ELSE "raises"
       ELSE "null"

\* ------------------------------------------------------- merge engine
\* The height strings of the model: one that parses ('1'), one that does
\* not ('f ', key 'f') and one on which the normalizer raises ('1-.').
HeightRaws == {<<"1">>, <<"f", " ">>, <<"1", "-", ".">>}

\* PermapeoplePlant.height: Optional[str]
HeightColumn == {None} \cup {Some(raw) : raw \in HeightRaws}

\* normalize_height_to_inches of a string that parses, in tenths of an
\* inch: the numeral 1 without a unit is 1 m, round(1 * 39.3701, 1) = 39.4.
InchesOf(raw) == 394

\* a resolution in which the last source of the list wins
RECURSIVE apply_priority_last(_, _)
apply_priority_last(sources, source_priority) ==
    IF source_priority = <<>> THEN NULL
    ELSE LET src == source_priority[Len(source_priority)]
             val == IF src \in DOMAIN sources THEN sources[src] ELSE NULL
         IN IF val # NULL THEN val
            ELSE apply_priority_last(sources, SubSeq(source_priority, 1, Len(source_priority) - 1))

\* apply_priority: the first source of source_priority with a value.
RECURSIVE apply_priority(_, _)
apply_priority(sources, source_priority) ==
    IF source_priority = <<>> THEN NULL
    ELSE LET src == Head(source_priority)
             val == IF src \in DOMAIN sources THEN sources[src] ELSE NULL
         IN IF val # NULL THEN val
            ELSE apply_priority(sources, Tail(source_priority))

\* One side of the outer join: each linked row, or one absent row.
OuterRows(rows) ==
    IF rows = <<>> THEN << <<>> >> ELSE [k \in 1..Len(rows) |-> <<rows[k]>>]

\* select(Plant, PermapeoplePlant, PerenualPlant).outerjoin(...).outerjoin(...):
\* one result row per pair of linked source rows.
JoinRows(pp, pn) ==
    LET A == OuterRows(pp)
        B == OuterRows(pn)
        n == Len(B)
    IN [k \in 1..(Len(A) * n) |->
          [permapeople |-> A[((k - 1) \div n) + 1],
           perenual |-> B[((k - 1) % n) + 1]]]

\* raw_values: the sources whose row exists and whose column is not None;
\* the field has no normalizer, so normalized[src] = raw.
Normalized(row) ==
    [src \in { x \in SourceNames : row[x] # <<>> /\ row[x][1] # NULL } |-> row[src][1]]

\* priority = rule.source_priority or ["permapeople", "perenual"]
Priority(r) == IF r = <<>> THEN DEFAULT_PRIORITY ELSE r

\* the height column of each row of the join: that of its permapeople row
JoinHeights(heights, pn) ==
    LET n == Len(OuterRows(pn))
    IN [k \in 1..(Len(OuterRows(heights)) * n) |->
          IF heights = <<>> THEN None ELSE heights[((k - 1) \div n) + 1]]

\* unmapped_values[field_name][key] = unmapped_values[field_name].get(key, 0) + 1
Bump(unmapped, field_name, key) ==
    [k \in DOMAIN unmapped \cup {<<field_name, key>>} |->
        IF k = <<field_name, key>>
        THEN (IF k \in DOMAIN unmapped THEN unmapped[k] ELSE 0) + 1
        ELSE unmapped[k]]

\* a write condition under which a null resolution clears the field
ShouldWriteAlways(resolved, current) == resolved # current

\* if resolved is not None and resolved != current
ShouldWrite(resolved, current) == resolved # NULL /\ resolved # current

\* setattr(plant, field_name, resolved); changed = True;
\* stats["fields_filled"] += 1; sources_used.add(src) for src in normalized
WriteField(loc, field_name, resolved, srcs) ==
    [loc EXCEPT !.plant[field_name] = resolved,
                !.changed = TRUE,
                !.stats.fields_filled = @ + 1,
                !.sources_used = @ \cup srcs]

\* One pass of "for field_name, rule in rules.items()" over the locals of
\* the row (loc.raised: an exception has left the loop). image_url has no
\* normalizer; height_inches is read from permapeople alone and normalized
\* by normalize_height_to_inches; bloom_season has a rule and no entry in
\* SOURCE_FIELD_MAP.
MergeField(loc, field_name, row, height, r) ==
    IF loc.raised THEN loc
    ELSE IF field_name = "image_url"
    THEN LET normalized == Normalized(row)
             resolved == IF DOMAIN normalized = {} THEN NULL
                         ELSE apply_priority(normalized, Priority(r))
         IN IF ShouldWrite(resolved, loc.plant.image_url)
            THEN WriteField(loc, field_name, resolved, DOMAIN normalized)
            ELSE loc
    ELSE IF field_name = "height_inches"
    THEN IF height = None THEN loc
         ELSE LET raw == height[1]
                  val == parse_measurement_to_inches(raw)
                  resolved == IF val = "value"
                              THEN apply_priority([src \in {"permapeople"} |-> InchesOf(raw)],
                                                  HEIGHT_PRIORITY)
                              ELSE NULL
              IN IF val = "raises" THEN [loc EXCEPT !.raised = TRUE]
                 ELSE IF val = "null" /\ raw # <<>>
                 THEN [loc EXCEPT !.unmapped = Bump(@, field_name, Strip(raw))]
                 ELSE IF ShouldWrite(resolved, loc.plant.height_inches)
                 THEN WriteField(loc, field_name, resolved, {"permapeople"})
                 ELSE loc
    ELSE loc

RECURSIVE MergeFields(_, _, _, _, _)
MergeFields(loc, order, row, height, r) ==
    IF order = <<>> THEN loc
    ELSE MergeFields(MergeField(loc, Head(order), row, height, r),
                     Tail(order), row, height, r)

\* The body of the per-row loop on acc = [plant, stats, unmapped]: skip a
\* row without sources; run the fields; then either update data_sources and
\* count the row enriched or unchanged, or, on an exception, count an
\* error. What setattr, fields_filled and unmapped_values took before the
\* exception stays.
MergeRow(acc, row, height, r, order) ==
    IF row.permapeople = <<>> /\ row.perenual = <<>>
    THEN [acc EXCEPT !.stats.skipped = @ + 1]
    ELSE LET loc == MergeFields([plant |-> acc.plant, stats |-> acc.stats,
                                 unmapped |-> acc.unmapped, changed |-> FALSE,
                                 sources_used |-> acc.plant.data_sources,
                                 raised |-> FALSE],
                                order, row, height, r)
         IN IF loc.raised
            THEN [plant |-> loc.plant,
                  stats |-> [loc.stats EXCEPT !.errors = @ + 1],
                  unmapped |-> loc.unmapped]
            ELSE [plant |-> [loc.plant EXCEPT !.data_sources = loc.sources_used],
                  stats |-> IF loc.changed
                            THEN [loc.stats EXCEPT !.enriched = @ + 1]
                            ELSE [loc.stats EXCEPT !.unchanged = @ + 1],
                  unmapped |-> loc.unmapped]

\* for plant, permapeople_row, perenual_row in rows: ...
RECURSIVE MergeRows(_, _, _, _, _)
MergeRows(acc, rows, heights, r, order) ==
    IF rows = <<>> THEN acc
    ELSE MergeRows(MergeRow(acc, Head(rows), Head(heights), r, order),
                   Tail(rows), Tail(heights), r, order)

\* ------------------------------------- fetch_permapeople, enrich_plants
\* the source name a job records in data_source_runs
JobSource(job) == IF job = "fetch_permapeople" THEN "permapeople" ELSE "enrichment"

\* if await is_source_running(db, source): return
LedgerGuard(i) ==
    /\ inv[i].pc = "l_guard"
    /\ IF IsSourceRunning(data_source_runs, JobSource(inv[i].job), now)
       THEN SetInv(i, IdleInv)
       ELSE SetInv(i, [inv[i] EXCEPT !.pc = "l_start"])
    /\ UNCHANGED <<now, emails, faults, harvestOnly, ledgerOnly, pureOnly, catalogOnly>>

\* start_run: DataSourceRun(source, status="running", started_at=now)
start_run(source) ==
    [source |-> source, status |-> "running", started_at |-> now,
     error_detail |-> "none", error_len |-> 0,
     new_species |-> 0, updated |-> 0, unchanged |-> 0, skipped |-> 0]

\* complete_run, after the job copied its counters onto the Run
complete_run(row, st) ==
    [row EXCEPT !.status = "completed",
                !.new_species = st.enriched, !.updated = st.fields_filled,
                !.unchanged = st.unchanged, !.skipped = st.skipped]

\* error[:4000], as a length
Truncated(n) == IF n > ERROR_DETAIL_LIMIT THEN ERROR_DETAIL_LIMIT ELSE n

\* fail_run: status failed with the error text, n characters long
fail_run(row, n) ==
    [row EXCEPT !.status = "failed", !.error_detail = "error",
                !.error_len = Truncated(n)]

\* run = start_run(db, source, triggered_by); await db.commit()
LedgerStart(i) ==
    /\ inv[i].pc = "l_start"
    /\ data_source_runs' = Append(data_source_runs, start_run(JobSource(inv[i].job)))
    /\ SetInv(i, [inv[i] EXCEPT !.pc = "l_work", !.run = Len(data_source_runs) + 1])
    /\ UNCHANGED <<now, emails, faults, harvestOnly,
                   plant, permapeople_rows, permapeople_height, perenual_rows,
                   rule, rules_order, pureOnly, catalogOnly>>

\* fetch_permapeople, the two passes: an upstream item matching the
\* Canonical Record by name is stored as one more linked source row; the
\* count goes to new_species.
PermapeoplePasses(i) ==
    /\ inv[i].pc = "l_work"
    /\ inv[i].job = "fetch_permapeople"
    /\ \/ /\ Len(permapeople_rows) < MaxSourceRows
          /\ \E v \in Values : permapeople_rows' = Append(permapeople_rows, v)
          /\ \E h \in HeightColumn : permapeople_height' = Append(permapeople_height, h)
          /\ SetInv(i, [inv[i] EXCEPT !.pc = "l_complete", !.stats.enriched = 1])
       \/ /\ UNCHANGED <<permapeople_rows, permapeople_height>>
          /\ SetInv(i, [inv[i] EXCEPT !.pc = "l_complete"])
    /\ UNCHANGED <<now, emails, faults, harvestOnly,
                   data_source_runs, plant, perenual_rows, rule, rules_order,
                   pureOnly, catalogOnly>>

\* enrich_plants, the batch loop: every row of the join is merged and the
\* batch committed (BATCH_SIZE exceeds the rows of the model).
EnrichBatch(i) ==
    LET r == MergeRows([plant |-> plant, stats |-> inv[i].stats,
                        unmapped |-> inv[i].unmapped],
                       JoinRows(permapeople_rows, perenual_rows),
                       JoinHeights(permapeople_height, perenual_rows),
                       rule, rules_order)
    IN /\ inv[i].pc = "l_work"
       /\ inv[i].job = "enrich_plants"
       /\ plant' = r.plant
       /\ SetInv(i, [inv[i] EXCEPT !.pc = "l_complete", !.stats = r.stats,
                                   !.unmapped = r.unmapped])
       /\ UNCHANGED <<now, emails, faults, harvestOnly,
                      data_source_runs, permapeople_rows, permapeople_height,
                      perenual_rows, rule, rules_order, pureOnly, catalogOnly>>

\* An exception escapes the body before the Run is completed.
LedgerWorkRaises(i) ==
    /\ inv[i].pc = "l_work"
    /\ faults < MaxFaults
    /\ faults' = faults + 1
    /\ SetInv(i, [inv[i] EXCEPT !.pc = "l_handler"])
    /\ UNCHANGED <<now, emails, harvestOnly, ledgerOnly, pureOnly, catalogOnly>>

\* await complete_run(db, run, stats); await db.commit()
LedgerComplete(i) ==
    /\ inv[i].pc = "l_complete"
    /\ data_source_runs' =
         [data_source_runs EXCEPT ![inv[i].run] = complete_run(@, inv[i].stats)]
    /\ SetInv(i, [inv[i] EXCEPT !.pc = "l_report"])
    /\ UNCHANGED <<now, emails, faults, harvestOnly,
                   plant, permapeople_rows, permapeople_height, perenual_rows,
                   rule, rules_order, pureOnly, catalogOnly>>

\* The coverage and count queries succeed and the report is sent.
LedgerReport(i) ==
    /\ inv[i].pc = "l_report"
    /\ emails' = emails \cup {Email(i, "report")}
    /\ SetInv(i, IdleInv)
    /\ UNCHANGED <<now, faults, harvestOnly, ledgerOnly, pureOnly, catalogOnly>>

\* A query after the completing commit (_count_permapeople,
\* _query_coverage) raises inside the task's try.
LedgerReportRaises(i) ==
    /\ inv[i].pc = "l_report"
    /\ faults < MaxFaults
    /\ faults' = faults + 1
    /\ SetInv(i, [inv[i] EXCEPT !.pc = "l_handler"])
    /\ UNCHANGED <<now, emails, harvestOnly, ledgerOnly, pureOnly, catalogOnly>>

\* except Exception: rollback; fail_run; commit; error email; raise
LedgerHandler(i) ==
    /\ inv[i].pc = "l_handler"
    /\ \E n \in ErrorLengths :
         data_source_runs' = [data_source_runs EXCEPT ![inv[i].run] = fail_run(@, n)]
    /\ emails' = emails \cup {Email(i, "error")}
    /\ SetInv(i, IdleInv)
    /\ UNCHANGED <<now, faults, harvestOnly,
                   plant, permapeople_rows, permapeople_height, perenual_rows,
                   rule, rules_order, pureOnly, catalogOnly>>

\* The worker process dies (restart, OOM) while the invocation holds a Run:
\* nothing more is written.
Crash(i) ==
    /\ Executing(i)
    /\ faults < MaxFaults
    /\ faults' = faults + 1
    /\ obs' = IF inv[i].job \in HarvestJobs
              THEN [obs EXCEPT ![inv[i].run].crashed = TRUE]
              ELSE obs
    /\ SetInv(i, IdleInv)
    /\ UNCHANGED <<now, seeder_runs, perenual_plants, plants, queue, emails, ledgerOnly, pureOnly, catalogOnly>>

\* An hour passes.  Invocations last minutes (every external call has a
\* 30 s timeout), so the clock moves between invocations; it only matters
\* while a running row can still turn stale.
Tick ==
    /\ now < MaxTime
    /\ \A i \in Procs : inv[i].pc = "idle"
    /\ GetActiveRun(seeder_runs, now)
       \/ \E src \in {"permapeople", "enrichment"} :
             IsSourceRunning(data_source_runs, src, now)
    /\ now' = now + 1
    /\ UNCHANGED <<seeder_runs, perenual_plants, plants, inv, queue, emails, obs, faults, ledgerOnly, pureOnly, catalogOnly>>

\* ------------------------------------------------------- specifications
Step(i) ==
    \/ Trigger(i, Jobs, BOOLEAN)
    \/ RunQueued(i)
    \/ Guard(i)
    \/ ReadLast(i)
    \/ StartRun(i)
    \/ LoopBudget(i)
    \/ LoopRateLimited(i)
    \/ LoopError(i)
    \/ LoopPage(i)
    \/ SeedPage(i)
    \/ PartialStop(i)
    \/ Finalise(i)
    \/ BackfillQuery(i)
    \/ BackfillBudget(i)
    \/ BackfillRateLimited(i)
    \/ BackfillItem(i)
    \/ NotifySummary(i)
    \/ QuotaEnqueue(i)
    \/ QuotaEnqueueFails(i)
    \/ QuotaEmail(i)
    \/ NotifyRaises(i)
    \/ Handler(i)
    \/ LedgerGuard(i)
    \/ LedgerStart(i)
    \/ PermapeoplePasses(i)
    \/ EnrichBatch(i)
    \/ LedgerWorkRaises(i)
    \/ LedgerComplete(i)
    \/ LedgerReport(i)
    \/ LedgerReportRaises(i)
    \/ LedgerHandler(i)
    \/ Crash(i)

\* One worker slot: invocations run one after another.
Next == Step(1) \/ Tick

Spec == Init /\ [][Next]_vars

\* Every worker slot: invocations interleave at their awaits.
RaceStep(i) ==
    \/ Trigger(i, Jobs, {FALSE})
    \/ Guard(i)
    \/ ReadLast(i)
    \/ StartRun(i)
    \/ LoopBudget(i)
    \/ LoopRateLimited(i)
    \/ LoopPage(i)
    \/ SeedPage(i)
    \/ PartialStop(i)
    \/ Finalise(i)
    \/ BackfillQuery(i)
    \/ BackfillBudget(i)
    \/ BackfillRateLimited(i)
    \/ BackfillItem(i)
    \/ NotifySummary(i)
    \/ QuotaEmail(i)
    \/ LedgerGuard(i)
    \/ LedgerStart(i)
    \/ PermapeoplePasses(i)
    \/ EnrichBatch(i)
    \/ LedgerComplete(i)
    \/ LedgerReport(i)

NextRace == \E i \in Procs : RaceStep(i)

SpecRace == Init /\ [][NextRace]_vars

\* ------------------------------------------------ strategies on their own
\* An item of a list value: a word in one of two spellings that differ in
\* letter case only ("rose" / "Rose").  normalize_list strips the items it
\* produces, so they carry no surrounding blanks.
Items == [word : 1..MaxWord, upper : BOOLEAN]

\* a key that keeps the spelling
LowerIdentity(item) == item

\* item.lower().strip()
Lower(item) == [item EXCEPT !.upper = FALSE]

\* for item in val: if low not in seen: seen.add(low); result.append(item)
RECURSIVE UnionItems(_, _)
UnionItems(val, acc) ==
    IF val = <<>> THEN acc
    ELSE LET low == Lower(Head(val))
         IN UnionItems(Tail(val),
                       IF low \in acc.seen THEN acc
                       ELSE [result |-> Append(acc.result, Head(val)),
                             seen |-> acc.seen \cup {low}])

\* for src in source_priority: val = sources.get(src); if val and
\* isinstance(val, list): ...
RECURSIVE UnionSources(_, _, _)
UnionSources(sources, source_priority, acc) ==
    IF source_priority = <<>> THEN acc
    ELSE LET src == Head(source_priority)
             val == IF src \in DOMAIN sources THEN sources[src] ELSE <<>>
         IN UnionSources(sources, Tail(source_priority), UnionItems(val, acc))

\* apply_union: result if result else None
apply_union(sources, source_priority) ==
    LET r == UnionSources(sources, source_priority, [result |-> <<>>, seen |-> {}]).result
    IN IF r = <<>> THEN None ELSE Some(r)

\* list values a source can hold
ItemLists == SeqUpTo(Items, MaxItems)

\* sources: dict[str, list], any subset of the sources present
UnionSourceDicts ==
    UNION { [S -> ItemLists] : S \in SUBSET SourceNames }

UnionArgs ==
    [fn : {"apply_union"}, sources : UnionSourceDicts,
     source_priority : PriorityLists \ {<<>>}]

\* resolved = strategy_fn(normalized, priority) with strategy union
CallUnion ==
    /\ arg.fn = "apply_union"
    /\ out = NoCall
    /\ out' = [fn |-> arg.fn, val |-> apply_union(arg.sources, arg.source_priority)]
    /\ UNCHANGED <<now, inv, emails, faults, harvestOnly, ledgerOnly, catalogOnly, arg>>

\* ------------------------------------------ normalizers called on their own
NormalizerNames ==
    {"parse_measurement_to_inches", "normalize_soil_ph",
     "normalize_germination_time", "normalize_germination_temp"}

NormArgs == [fn : NormalizerNames, raw : RawStrings]

\* normalizer(raw), for each of the numeral normalizers
CallMeasurement ==
    /\ arg.fn = "parse_measurement_to_inches"
    /\ out = NoCall
    /\ out' = [fn |-> arg.fn, val |-> parse_measurement_to_inches(arg.raw)]
    /\ UNCHANGED <<now, inv, emails, faults, harvestOnly, ledgerOnly, catalogOnly, arg>>

CallSoilPh ==
    /\ arg.fn = "normalize_soil_ph"
    /\ out = NoCall
    /\ out' = [fn |-> arg.fn, val |-> normalize_soil_ph(arg.raw)]
    /\ UNCHANGED <<now, inv, emails, faults, harvestOnly, ledgerOnly, catalogOnly, arg>>

CallGerminationTime ==
    /\ arg.fn = "normalize_germination_time"
    /\ out = NoCall
    /\ out' = [fn |-> arg.fn, val |-> normalize_germination_time(arg.raw)]
    /\ UNCHANGED <<now, inv, emails, faults, harvestOnly, ledgerOnly, catalogOnly, arg>>

CallGerminationTemp ==
    /\ arg.fn = "normalize_germination_temp"
    /\ out = NoCall
    /\ out' = [fn |-> arg.fn, val |-> normalize_germination_temp(arg.raw)]
    /\ UNCHANGED <<now, inv, emails, faults, harvestOnly, ledgerOnly, catalogOnly, arg>>

\* ------------------------------------------------------ hardiness zones
\* The characters zone strings are made of: three digits, the sub-letters
\* and the hyphen (no blank, quote or " to ", so the cleaning of lines
\* 202-206 leaves them as they are).
ZoneChars == {"1", "4", "7", "a", "b", "-"}

ZoneStrings == SeqUpTo(ZoneChars, MaxZoneLen)

DigitValue(c) == IF c = "1" THEN 1 ELSE IF c = "4" THEN 4 ELSE 7

\* int(s) of a string of digits
RECURSIVE IntOf(_)
IntOf(digits) ==
    IF digits = <<>> THEN 0
    ELSE IntOf(SubSeq(digits, 1, Len(digits) - 1)) * 10 + DigitValue(digits[Len(digits)])

\* \d+ from p: the index after the digits
RECURSIVE DigitsEnd(_, _)
DigitsEnd(s, p) == IF At(s, p) \in {"1", "4", "7"} THEN DigitsEnd(s, p + 1) ELSE p

\* \d+[ab]? from p: the index after it (p when it does not match)
EndpointEnd(s, p) ==
    LET d == DigitsEnd(s, p)
    IN IF d = p THEN p ELSE IF At(s, d) \in {"a", "b"} THEN d + 1 ELSE d

\* ^(\d+[ab]?)\s*-\s*(\d+[ab]?)$
ZoneRangeMatch(s) ==
    LET e1 == EndpointEnd(s, 1)
        e2 == EndpointEnd(s, e1 + 1)
    IN [ok |-> e1 > 1 /\ At(s, e1) = "-" /\ e2 > e1 + 1 /\ e2 = Len(s) + 1,
        g1 |-> Piece(s, 1, e1), g2 |-> Piece(s, e1 + 1, e2)]

\* ^(\d+[ab]?)$
ZoneSingleMatch(s) == EndpointEnd(s, 1) > 1 /\ EndpointEnd(s, 1) = Len(s) + 1

\* _parse_zone_endpoint: '9b' -> (9, 'b'), '7' -> (7, None); sub "" is None
parse_zone_endpoint(tok) ==
    IF tok[Len(tok)] \in {"a", "b"}
    THEN [num |-> IntOf(SubSeq(tok, 1, Len(tok) - 1)), sub |-> tok[Len(tok)]]
    ELSE [num |-> IntOf(tok), sub |-> ""]

\* the order of SUBZONES = ["a", "b"]
SubRank(sub) == IF sub = "a" THEN 1 ELSE 2

\* an expansion that ignores the end's sub-letter
expand_zone_range_to_b(start_num, start_sub, end_num, end_sub) ==
    IF start_sub = "" /\ end_sub = ""
    THEN [k \in 1..(end_num - start_num + 1) |-> [num |-> start_num + k - 1, sub |-> ""]]
    ELSE LET first == IF start_sub = "" THEN "a" ELSE start_sub
             all == [k \in 1..(2 * (end_num - start_num + 1)) |->
                        [num |-> start_num + ((k - 1) \div 2),
                         sub |-> IF k % 2 = 1 THEN "a" ELSE "b"]]
         IN SelectSeq(all, LAMBDA z :
                ~(z.num = start_num /\ SubRank(z.sub) < SubRank(first)))

\* _expand_zone_range
expand_zone_range(start_num, start_sub, end_num, end_sub) ==
    IF start_sub = "" /\ end_sub = ""
    THEN [k \in 1..(end_num - start_num + 1) |-> [num |-> start_num + k - 1, sub |-> ""]]
    ELSE LET first == IF start_sub = "" THEN "a" ELSE start_sub
             last == IF end_sub = "" THEN "b" ELSE end_sub
             all == [k \in 1..(2 * (end_num - start_num + 1)) |->
                        [num |-> start_num + ((k - 1) \div 2),
                         sub |-> IF k % 2 = 1 THEN "a" ELSE "b"]]
         IN SelectSeq(all, LAMBDA z :
                /\ ~(z.num = start_num /\ SubRank(z.sub) < SubRank(first))
                /\ ~(z.num = end_num /\ SubRank(z.sub) > SubRank(last)))

\* normalize_hardiness_zones: a range inside 0..13 with start_num <=
\* end_num is expanded; anything else that looks like one zone is returned
\* as it stands.
normalize_hardiness_zones(raw) ==
    LET m == ZoneRangeMatch(raw)
        s == parse_zone_endpoint(m.g1)
        e == parse_zone_endpoint(m.g2)
    IN IF raw = <<>> THEN None
       ELSE IF m.ok /\ 0 <= s.num /\ s.num <= e.num /\ e.num <= 13
       THEN Some(expand_zone_range(s.num, s.sub, e.num, e.sub))
       ELSE IF ZoneSingleMatch(raw) THEN Some(<<parse_zone_endpoint(raw)>>)
       ELSE None

ZoneArgs == [fn : {"normalize_hardiness_zones"}, raw : ZoneStrings]

CallZones ==
    /\ arg.fn = "normalize_hardiness_zones"
    /\ out = NoCall
    /\ out' = [fn |-> arg.fn, val |-> normalize_hardiness_zones(arg.raw)]
    /\ UNCHANGED <<now, inv, emails, faults, harvestOnly, ledgerOnly, catalogOnly, arg>>

\* ------------------------------------------------- measurement values
\* The decimal digits; str(n) of a natural number.
Digits10 == <<"0", "1", "2", "3", "4", "5", "6", "7", "8", "9">>

DigitChars == { Digits10[j] : j \in 1..10 }

DigitOf(d) == Digits10[d + 1]

DecimalValue(c) == CHOOSE d \in 0..9 : Digits10[d + 1] = c

RECURSIVE Numeral(_)
Numeral(n) ==
    IF n < 10 THEN <<DigitOf(n)>>
    ELSE Numeral(n \div 10) \o <<DigitOf(n % 10)>>

\* The raw strings of the model, lower case: a length of n centimetres as
\* "<n>cm" and as "<n/100>m" with two decimals, whole inches and feet,
\* ranges "a-b<unit>" and products "axb<unit>".
UnitCm == <<"c", "m">>
UnitM == <<"m">>
UnitIn == <<"i", "n">>
UnitFt == <<"f", "t">>
TextUnits == {UnitCm, UnitM, UnitIn, UnitFt}

Centimetres(n) == Numeral(n) \o UnitCm

Metres(n) ==
    Numeral(n \div 100) \o <<".", DigitOf((n % 100) \div 10), DigitOf(n % 10)>> \o UnitM

Inches(n) == Numeral(n) \o UnitIn

Feet(n) == Numeral(n) \o UnitFt

\* half of s as a numeral: "7" for 14, "7.5" for 15
HalfNumeral(s) ==
    IF s % 2 = 0 THEN Numeral(s \div 2) ELSE Numeral(s \div 2) \o <<".", "5">>

Operands == 1..MaxOperand

SingleTexts ==
    { Centimetres(n) : n \in 1..MaxCentimetres }
    \cup { Metres(n) : n \in 1..MaxCentimetres }
    \cup { Inches(n) : n \in 1..(12 * MaxOperand) }
    \cup { Feet(n) : n \in Operands }

RangeTexts ==
    { Numeral(a) \o <<"-">> \o Numeral(b) \o u : a \in Operands, b \in Operands, u \in TextUnits }

CrossTexts ==
    { Numeral(a) \o <<"x">> \o Numeral(b) \o u : a \in Operands, b \in Operands, u \in TextUnits }

\* [\d.]+ from p, greedy: the index after the run (p when there is none)
RECURSIVE NumberEnd(_, _)
NumberEnd(s, p) ==
    IF At(s, p) \in DigitChars \cup {"."} THEN NumberEnd(s, p + 1) ELSE p

\* (cm|m|inches|inch|in|"|'|feet|ft), in the order the alternation tries
MEASUREMENT_UNITS ==
    <<UnitCm, UnitM, <<"i", "n", "c", "h", "e", "s">>, <<"i", "n", "c", "h">>,
      UnitIn, <<"\"">>, <<"'">>, <<"f", "e", "e", "t">>, UnitFt>>

\* s has the characters of u from p on
HasAt(s, p, u) == \A j \in 1..Len(u) : At(s, p + j - 1) = u[j]

\* the first alternative that matches at p, <<>> when none does
UnitAt(s, p) ==
    LET hits == { j \in 1..Len(MEASUREMENT_UNITS) : HasAt(s, p, MEASUREMENT_UNITS[j]) }
    IN IF hits = {} THEN <<>>
       ELSE MEASUREMENT_UNITS[CHOOSE j \in hits : \A other \in hits : j <= other]

\* _MEASUREMENT_RE.match(raw): every part after group 1 is optional, so the
\* greedy choice of each part is the match.
MeasurementMatch(s) ==
    LET e1 == NumberEnd(s, 1)
        a == SkipBlanks(s, e1)
        b == SkipBlanks(s, a + 1)
        e2 == NumberEnd(s, b)
        ranged == At(s, a) = "-" /\ e2 > b
        u == IF ranged THEN SkipBlanks(s, e2) ELSE a
    IN [ok |-> e1 > 1,
        g1 |-> Piece(s, 1, e1),
        g2 |-> IF ranged THEN Piece(s, b, e2) ELSE <<>>,
        g3 |-> UnitAt(s, u)]

\* float(tok) of a run of digits and points does not raise ValueError
DecimalAccepts(tok) ==
    /\ \E j \in 1..Len(tok) : tok[j] \in DigitChars
    /\ Cardinality({ j \in 1..Len(tok) : tok[j] = "." }) <= 1

\* int(digits), 0 for no digits
RECURSIVE NaturalOf(_)
NaturalOf(digits) ==
    IF digits = <<>> THEN 0
    ELSE NaturalOf(SubSeq(digits, 1, Len(digits) - 1)) * 10
         + DecimalValue(digits[Len(digits)])

\* float(tok), in hundredths (the numerals of the model have at most two
\* decimals)
FloatHundredths(tok) ==
    LET points == { j \in 1..Len(tok) : tok[j] = "." }
        dot == IF points = {} THEN Len(tok) + 1 ELSE CHOOSE j \in points : TRUE
        frac == SubSeq(tok, dot + 1, Len(tok))
    IN NaturalOf(SubSeq(tok, 1, dot - 1)) * 100
       + (IF Len(frac) = 0 THEN 0
          ELSE IF Len(frac) = 1 THEN DecimalValue(frac[1]) * 10
          ELSE DecimalValue(frac[1]) * 10 + DecimalValue(frac[2]))

\* n / d rounded to the nearest integer, a tie to the even one
RoundDiv(n, d) ==
    LET q == n \div d
        r == n % d
    IN IF 2 * r < d THEN q
       ELSE IF 2 * r > d THEN q + 1
       ELSE IF q % 2 = 0 THEN q ELSE q + 1

\* round(avg / 2.54, 1), in tenths of an inch, of sum = val1 + val2 in
\* hundredths
FromCm(sum) == RoundDiv(sum * 5, 254)

\* round(avg * 39.3701, 1)
FromM(sum) == RoundDiv(sum * 393701, 200000)

\* the branch on the unit
ConvertToInches(sum, unit, default_unit) ==
    IF unit = UnitCm THEN FromCm(sum)
    ELSE IF unit = UnitM THEN FromM(sum)
    ELSE IF unit \in {<<"i", "n", "c", "h", "e", "s">>, <<"i", "n", "c", "h">>,
                      UnitIn, <<"\"">>}
    THEN RoundDiv(sum, 20)
    ELSE IF unit \in {<<"'">>, <<"f", "e", "e", "t">>, UnitFt}
    THEN RoundDiv(sum * 3, 5)
    ELSE IF default_unit = "cm" THEN FromCm(sum)
    ELSE FromM(sum)

\* parse_measurement_to_inches(raw, default_unit) with its value: None,
\* a ValueError of the unguarded float(m.group(2)), or the length in
\* tenths of an inch.
measurement_to_inches(raw, default_unit) ==
    LET s0 == Strip(raw)
        s == IF \E j \in 1..Len(s0) : s0[j] = "x" THEN Strip(BeforeX(s0)) ELSE s0
        m == MeasurementMatch(s)
        val1 == FloatHundredths(m.g1)
        val2 == IF m.g2 # <<>> THEN FloatHundredths(m.g2) ELSE val1
    IN IF ~m.ok THEN [outcome |-> "null", tenths |-> 0]
       ELSE IF ~DecimalAccepts(m.g1) THEN [outcome |-> "null", tenths |-> 0]
       ELSE IF m.g2 # <<>> /\ ~DecimalAccepts(m.g2) THEN [outcome |-> "raises", tenths |-> 0]
       ELSE [outcome |-> "value",
             tenths |-> ConvertToInches(val1 + val2, m.g3, default_unit)]

MeasureArgs ==
    [fn : {"measurement_to_inches"},
     raw : SingleTexts \cup RangeTexts \cup CrossTexts,
     default_unit : {"m", "cm"}]

CallMeasurementValue ==
    /\ arg.fn = "measurement_to_inches"
    /\ out = NoCall
    /\ out' = [fn |-> arg.fn, val |-> measurement_to_inches(arg.raw, arg.default_unit)]
    /\ UNCHANGED <<now, inv, emails, faults, harvestOnly, ledgerOnly, catalogOnly, arg>>

\* ------------------------------------------- permapeople._request_with_retry
\* _MAX_RETRIES = 3
MAX_RETRIES == 3

\* What one attempt meets: httpx.TimeoutException, another transport error
\* (httpx.ConnectError), or a response with its status code.
Answers ==
    {[kind |-> "timeout", status |-> 0], [kind |-> "error", status |-> 0]}
    \cup [kind : {"response"}, status : {200, 399, 400, 429, 500}]

\* what the upstream would answer to each attempt of one call
AnswerScripts == [1..MAX_RETRIES -> Answers]

\* a client that retries every error status
RetriedStatusAny(status) == status >= 400

\* if response.status_code == 429: sleep and continue
RetriedStatus(status) == status = 429

\* wait = 2 ** (attempt + 1)
Backoff(attempt) == 2 ^ (attempt + 1)

\* how the call ended
RetryResult(outcome, status, attempts, waits) ==
    [outcome |-> outcome, status |-> status, attempts |-> attempts, waits |-> waits]

\* for attempt in range(_MAX_RETRIES): ...; raise PermapeopleAPIError.
\* attempt counts from 0; waits are the asyncio.sleep calls made so far.
RECURSIVE request_with_retry(_, _, _)
request_with_retry(answers, attempt, waits) ==
    IF attempt >= MAX_RETRIES
    THEN RetryResult("PermapeopleAPIError", 0, attempt, waits)
    ELSE LET a == answers[attempt + 1]
         IN IF a.kind = "timeout"
            THEN IF attempt < MAX_RETRIES - 1
                 THEN request_with_retry(answers, attempt + 1,
                                         Append(waits, Backoff(attempt)))
                 ELSE RetryResult("PermapeopleAPIError", 0, attempt + 1, waits)
            ELSE IF a.kind = "error"
            THEN RetryResult("propagates", 0, attempt + 1, waits)
            ELSE IF RetriedStatus(a.status)
            THEN request_with_retry(answers, attempt + 1,
                                    Append(waits, Backoff(attempt)))
            ELSE IF a.status >= 400
            THEN RetryResult("PermapeopleAPIError", a.status, attempt + 1, waits)
            ELSE RetryResult("returns", a.status, attempt + 1, waits)

RetryArgs == [fn : {"_request_with_retry"}, answers : AnswerScripts]

CallRequestWithRetry ==
    /\ arg.fn = "_request_with_retry"
    /\ out = NoCall
    /\ out' = [fn |-> arg.fn, val |-> request_with_retry(arg.answers, 0, <<>>)]
    /\ UNCHANGED <<now, inv, emails, faults, harvestOnly, ledgerOnly, catalogOnly, arg>>

\* Any argument a normalizer or strategy can be called with.
InitPure ==
    /\ InitHarvest
    /\ plant = [image_url |-> NULL, height_inches |-> NULL, bloom_season |-> NULL,
                cultivar_name |-> 1, data_sources |-> {}]
    /\ permapeople_rows = <<>>
    /\ permapeople_height = <<>>
    /\ perenual_rows = <<>>
    /\ rule = <<>>
    /\ rules_order = SEEDED_ORDER
    /\ arg \in UnionArgs \cup NormArgs \cup ZoneArgs \cup MeasureArgs \cup RetryArgs
    /\ out = NoCall

NextPure ==
    \/ CallUnion
    \/ CallMeasurement
    \/ CallSoilPh
    \/ CallGerminationTime
    \/ CallGerminationTemp
    \/ CallZones
    \/ CallMeasurementValue
    \/ CallRequestWithRetry

SpecPure == InitPure /\ [][NextPure]_vars

\* The merge engine alone, run after run over fixed source rows and rule.
NextMerge ==
    \/ Trigger(1, {"enrich_plants"}, {FALSE})
    \/ LedgerGuard(1)
    \/ LedgerStart(1)
    \/ EnrichBatch(1)
    \/ LedgerComplete(1)
    \/ LedgerReport(1)

SpecMerge == InitMerge /\ [][NextMerge]_vars

\* the orders in which select(EnrichmentRule), which has no ORDER BY, can
\* return the rules
RuleOrders ==
    { q \in [1..Cardinality(RuledFields) -> RuledFields] :
        \A a, b \in DOMAIN q : a # b => q[a] # q[b] }

\* Any Canonical Record with any linked permapeople rows, heights included,
\* at most one perenual row, the seeded image_url rule and any rule order.
InitFields ==
    /\ InitHarvest
    /\ arg = NoCall
    /\ out = NoCall
    /\ plant \in [image_url : Values \cup {NULL}, height_inches : {NULL, InchesOf(<<"1">>)},
                  bloom_season : {NULL}, cultivar_name : {1}, data_sources : {{}}]
    /\ permapeople_rows \in SeqUpTo(Values \cup {NULL}, MaxSourceRows)
    /\ permapeople_height \in [1..Len(permapeople_rows) -> HeightColumn]
    /\ perenual_rows \in SeqUpTo(Values \cup {NULL}, 1)
    /\ rule = <<"perenual", "permapeople">>
    /\ rules_order \in RuleOrders

\* The merge engine over records with a normalized field.
SpecFields == InitFields /\ [][NextMerge]_vars

\* --------------------------------------- fetch_permapeople, page by page
\* A name, for matching: its letters in lower case and whether it is
\* written with capitals.
Name(word, upper) == [word |-> word, upper |-> upper]

\* plant_data.get("scientific_name") and plant_data.get("name") of the
\* catalog's items: item 1 has the scientific name of a Canonical Record in
\* another case, item 2 has no scientific name and the common name of a
\* Canonical Record, item 3 matches nothing.
ItemSciName(id) ==
    IF id = 1 THEN Some(Name("rosa", TRUE))
    ELSE IF id = 2 THEN None
    ELSE Some(Name("salvia", TRUE))

ItemCommonName(id) ==
    IF id = 1 THEN Name("rose", TRUE)
    ELSE IF id = 2 THEN Name("mint", TRUE)
    ELSE Name("sage", TRUE)

\* The plants table before the first harvest: two records of the users.
InitialCanonical ==
    <<[scientific_name |-> Some(Name("rosa", FALSE)), common_name |-> Name("dog rose", FALSE),
       source |-> "user", external_id |-> 0],
      [scientific_name |-> Some(Name("mentha", FALSE)), common_name |-> Name("mint", FALSE),
       source |-> "user", external_id |-> 0]>>

\* the values of image_url: 0 for None
Images == 0..MaxImage

\* .first(): the first of the matching records, 0 when there is none
FirstRecord(hits) ==
    IF hits = {} THEN 0 ELSE CHOOSE j \in hits : \A other \in hits : j <= other

\* find_plant_by_scientific_name: lower(scientific_name) = lower(sci_name)
find_plant_by_scientific_name(tbl, sci_name) ==
    FirstRecord({ j \in 1..Len(tbl) :
                    /\ tbl[j].scientific_name # None
                    /\ Lower(tbl[j].scientific_name[1]) = Lower(sci_name) })

\* find_plant_by_name: by scientific name, failing that by common name,
\* case-insensitively
find_plant_by_name(tbl, sci_name, common_name) ==
    LET by_sci == find_plant_by_scientific_name(tbl, sci_name)
    IN IF by_sci # 0
       THEN by_sci
       ELSE FirstRecord({ j \in 1..Len(tbl) :
                            Lower(tbl[j].common_name) = Lower(common_name) })

\* fetch_plant_list(last_id, updated_since): the next page of the catalog
\* after the cursor, of the items changed since then when a time is given
PlantList(items, last_id, updated_since) ==
    LET all == Ascending({ id \in PpIds :
                    /\ items[id].live
                    /\ id > last_id
                    /\ updated_since = NULL \/ items[id].changed_at >= updated_since })
    IN SubSeq(all, 1, IF Len(all) < PP_PAGE_SIZE THEN Len(all) ELSE PP_PAGE_SIZE)

\* _insert_new_species: the item is matched to a Canonical Record or gets
\* a stub, which is flushed first, then its PermapeoplePlant is added.
\* st is the session: rows and plants as the session sees them, the
\* counters.
insert_new_species(st, id, item, t) ==
    LET sci_name == ItemSciName(id)
        match == IF sci_name # None
                 THEN find_plant_by_name(st.plants, sci_name[1], ItemCommonName(id))
                 ELSE 0
        stub == [scientific_name |-> sci_name, common_name |-> ItemCommonName(id),
                 source |-> "permapeople", external_id |-> id]
        tbl == IF match = 0 THEN Append(st.plants, stub) ELSE st.plants
        plant_id == IF match = 0 THEN Len(tbl) ELSE match
    IN [st EXCEPT !.plants = tbl,
                  !.rows[id] = [stored |-> TRUE, version |-> item.version,
                                image |-> item.image, fetched_at |-> t,
                                plant_id |-> plant_id],
                  !.stats.new_plants_created = IF match = 0 THEN @ + 1 ELSE @,
                  !.stats.matched_existing = IF match = 0 THEN @ ELSE @ + 1,
                  !.stats.new_species = @ + 1]

\* except Exception: stats["errors"] += 1; await db.rollback(): the
\* session goes back to what the last commit left.
InsertFailed(st) ==
    [st EXCEPT !.rows = st.committed_rows, !.plants = st.committed_plants,
               !.stats.errors = @ + 1, !.fail = 0]

\* one fewer insert to go before the one that raises
Counted(st) == [st EXCEPT !.fail = IF @ = 0 THEN 0 ELSE @ - 1]

\* Pass 1, for p in plants_list: an existing row is skipped, a new item
\* inserted; fail = n > 0 makes the n-th insert of the page raise.
RECURSIVE Pass1Items(_, _, _, _)
Pass1Items(ids, st, items, t) ==
    IF ids = <<>> THEN st
    ELSE LET id == Head(ids)
             next == IF st.rows[id].stored
                     THEN [st EXCEPT !.stats.skipped = @ + 1]
                     ELSE IF st.fail = 1 THEN InsertFailed(st)
                     ELSE Counted(insert_new_species(st, id, items[id], t))
         IN Pass1Items(Tail(ids), [next EXCEPT !.last_id = id], items, t)

\* Version bump: every column the item has a value for is overwritten.
Overwritten(row, item, t) ==
    [row EXCEPT !.image = IF item.image # 0 THEN item.image ELSE @,
                !.version = item.version, !.fetched_at = t]

\* Same version: a column that is None takes the item's value.
GapFilled(row, item, t) == [row EXCEPT !.image = item.image, !.fetched_at = t]

\* Pass 2, for p in plants_list: insert, overwrite, gap-fill or nothing.
RECURSIVE Pass2Items(_, _, _, _)
Pass2Items(ids, st, items, t) ==
    IF ids = <<>> THEN st
    ELSE LET id == Head(ids)
             row == st.rows[id]
             item == items[id]
             next == IF ~row.stored
                     THEN IF st.fail = 1 THEN InsertFailed(st)
                          ELSE Counted(insert_new_species(st, id, item, t))
                     ELSE IF item.version > row.version
                     THEN [st EXCEPT !.rows[id] = Overwritten(row, item, t),
                                     !.stats.updated = @ + 1]
                     ELSE IF row.image = 0 /\ item.image # 0
                     THEN [st EXCEPT !.rows[id] = GapFilled(row, item, t),
                                     !.stats.gap_filled = @ + 1]
                     ELSE [st EXCEPT !.stats.unchanged = @ + 1]
         IN Pass2Items(Tail(ids), [next EXCEPT !.last_id = id], items, t)

\* the session at the top of a page
Session(fail) ==
    [rows |-> permapeople_plants, plants |-> canonical,
     committed_rows |-> permapeople_plants, committed_plants |-> canonical,
     stats |-> pp_inv.stats, last_id |-> pp_inv.last_id, fail |-> fail]

\* which insert of the page raises: none, or one while faults remain
Failing == IF faults < MaxFaults THEN 0..PP_PAGE_SIZE ELSE {0}

\* the rows a commit added
NewRows(before, after) == { id \in PpIds : ~before[id].stored /\ after[id].stored }

\* What is noted about the invocation of a new row: its flag, what it
\* found stored, its list calls per pass, the items Pass 2 was given, the
\* rows it committed.
NewPpObs ==
    [force_full |-> pp_inv.force_full, existing_count |-> NULL,
     pass1_calls |-> 0, pass2_calls |-> 0, list_failed |-> 0,
     insert_failed |-> {}, returned |-> 0, persisted |-> {},
     pass1_pages |-> 0, interrupted |-> FALSE, since |-> NULL]

ObservePp(field, value) == pp_obs' = [pp_obs EXCEPT ![pp_inv.run][field] = value]

\* the cron or the admin endpoint starts fetch_permapeople
PpTrigger ==
    /\ pp_inv.pc = "idle"
    /\ Len(data_source_runs) < MaxRuns
    /\ \E force_full \in BOOLEAN :
         pp_inv' = [IdlePp EXCEPT !.pc = "guard", !.force_full = force_full]
    /\ UNCHANGED <<now, inv, emails, faults, harvestOnly, ledgerOnly, pureOnly,
                   upstream, permapeople_plants, canonical, pp_obs>>

\* if await is_source_running(db, "permapeople"): return; else start_run
PpGuard ==
    /\ pp_inv.pc = "guard"
    /\ IF IsSourceRunning(data_source_runs, "permapeople", now)
       THEN /\ pp_inv' = IdlePp
            /\ UNCHANGED <<data_source_runs, pp_obs>>
       ELSE /\ data_source_runs' = Append(data_source_runs, start_run("permapeople"))
            /\ pp_obs' = Append(pp_obs, NewPpObs)
            /\ pp_inv' = [pp_inv EXCEPT !.pc = "count", !.run = Len(data_source_runs) + 1]
    /\ UNCHANGED <<now, inv, emails, faults, harvestOnly, plant, permapeople_rows,
                   permapeople_height, perenual_rows, rule, rules_order, pureOnly,
                   upstream, permapeople_plants, canonical>>

\* _count_permapeople
CountPermapeople(tbl) == Cardinality({ id \in PpIds : tbl[id].stored })

\* a gate that always opens Pass 1
RunFullAlways(force_full, existing_count) == TRUE

\* run_full = force_full or existing_count == 0
RunFull(force_full, existing_count) == force_full \/ existing_count = 0

\* Pass 1 runs or is skipped.
PpCount ==
    LET existing_count == CountPermapeople(permapeople_plants)
    IN /\ pp_inv.pc = "count"
       /\ ObservePp("existing_count", existing_count)
       /\ pp_inv' = [pp_inv EXCEPT
                       !.pc = IF RunFull(pp_inv.force_full, existing_count)
                              THEN "pass1" ELSE "pass2_gate"]
       /\ UNCHANGED <<now, inv, emails, faults, harvestOnly, ledgerOnly, pureOnly,
                      upstream, permapeople_plants, canonical>>

\* One page of Pass 1: the list call, the items, the commit.
Pass1Page ==
    LET ids == PlantList(upstream.items, pp_inv.last_id, NULL)
        o == pp_obs[pp_inv.run]
    IN /\ pp_inv.pc = "pass1"
       /\ IF ids = <<>>
          THEN /\ pp_inv' = [pp_inv EXCEPT !.pc = "pass2_gate"]
               /\ ObservePp("pass1_calls", o.pass1_calls + 1)
               /\ UNCHANGED <<permapeople_plants, canonical, faults>>
          ELSE \E fail \in Failing :
                 LET r == Pass1Items(ids, Session(fail), upstream.items, now)
                 IN /\ fail = 0 \/ r.fail = 0
                    /\ faults' = IF fail = 0 THEN faults ELSE faults + 1
                    /\ permapeople_plants' = r.rows
                    /\ canonical' = r.plants
                    /\ pp_inv' = [pp_inv EXCEPT !.stats = r.stats, !.last_id = r.last_id]
                    /\ pp_obs' = [pp_obs EXCEPT ![pp_inv.run] =
                         [o EXCEPT !.pass1_calls = @ + 1, !.pass1_pages = @ + 1,
                            !.persisted = @ \cup NewRows(permapeople_plants, r.rows),
                            !.insert_failed = IF fail = 0 THEN @
                                              ELSE @ \cup {r.stats.new_species}]]
       /\ UNCHANGED <<now, inv, emails, harvestOnly, ledgerOnly, pureOnly, upstream>>

\* fetch_plant_list raises PermapeopleAPIError in Pass 1 (HTTP 4xx/5xx,
\* retries exhausted): stats["errors"] += 1; break.
Pass1ListFails ==
    LET o == pp_obs[pp_inv.run]
    IN /\ pp_inv.pc = "pass1"
       /\ faults < MaxFaults
       /\ faults' = faults + 1
       /\ pp_inv' = [pp_inv EXCEPT !.pc = "pass2_gate", !.stats.errors = @ + 1]
       /\ pp_obs' = [pp_obs EXCEPT ![pp_inv.run] =
                       [o EXCEPT !.pass1_calls = @ + 1, !.list_failed = 1]]
       /\ UNCHANGED <<now, inv, emails, harvestOnly, ledgerOnly, pureOnly,
                      upstream, permapeople_plants, canonical>>

\* select(func.max(PermapeoplePlant.fetched_at)): NULL without rows
MaxFetched(tbl) ==
    LET times == { tbl[id].fetched_at : id \in { j \in PpIds : tbl[j].stored } }
    IN IF times = {} THEN NULL ELSE CHOOSE t \in times : \A other \in times : t >= other

\* a gate that skips Pass 2 as soon as Pass 1 found a new species
Pass2SkippedOnAnyNew(max_fetched, stats) ==
    max_fetched = NULL \/ stats.new_species > 0

\* Pass 2 is skipped on a first run or when everything was new.
Pass2Skipped(max_fetched, stats) ==
    max_fetched = NULL \/ (stats.new_species > 0 /\ stats.skipped = 0)

Pass2Gate ==
    LET max_fetched == MaxFetched(permapeople_plants)
    IN /\ pp_inv.pc = "pass2_gate"
       /\ IF Pass2Skipped(max_fetched, pp_inv.stats)
          THEN /\ pp_inv' = [pp_inv EXCEPT !.pc = "finish"]
               /\ UNCHANGED pp_obs
          ELSE /\ pp_inv' = [pp_inv EXCEPT !.pc = "pass2", !.last_id = 0,
                                           !.since = max_fetched]
               /\ ObservePp("since", max_fetched)
       /\ UNCHANGED <<now, inv, emails, faults, harvestOnly, ledgerOnly, pureOnly,
                      upstream, permapeople_plants, canonical>>

\* One page of Pass 2: the list call with updated_since, the items, the
\* commit.
Pass2Page ==
    LET ids == PlantList(upstream.items, pp_inv.last_id, pp_inv.since)
        o == pp_obs[pp_inv.run]
    IN /\ pp_inv.pc = "pass2"
       /\ IF ids = <<>>
          THEN /\ pp_inv' = [pp_inv EXCEPT !.pc = "finish"]
               /\ ObservePp("pass2_calls", o.pass2_calls + 1)
               /\ UNCHANGED <<permapeople_plants, canonical, faults>>
          ELSE \E fail \in Failing :
                 LET r == Pass2Items(ids, Session(fail), upstream.items, now)
                 IN /\ fail = 0 \/ r.fail = 0
                    /\ faults' = IF fail = 0 THEN faults ELSE faults + 1
                    /\ permapeople_plants' = r.rows
                    /\ canonical' = r.plants
                    /\ pp_inv' = [pp_inv EXCEPT !.stats = r.stats, !.last_id = r.last_id]
                    /\ pp_obs' = [pp_obs EXCEPT ![pp_inv.run] =
                         [o EXCEPT !.pass2_calls = @ + 1,
                            !.returned = @ + Len(ids),
                            !.persisted = @ \cup NewRows(permapeople_plants, r.rows),
                            !.insert_failed = IF fail = 0 THEN @
                                              ELSE @ \cup {r.stats.new_species}]]
       /\ UNCHANGED <<now, inv, emails, harvestOnly, ledgerOnly, pureOnly, upstream>>

\* fetch_plant_list raises PermapeopleAPIError in Pass 2.
Pass2ListFails ==
    LET o == pp_obs[pp_inv.run]
    IN /\ pp_inv.pc = "pass2"
       /\ faults < MaxFaults
       /\ faults' = faults + 1
       /\ pp_inv' = [pp_inv EXCEPT !.pc = "finish", !.stats.errors = @ + 1]
       /\ pp_obs' = [pp_obs EXCEPT ![pp_inv.run] =
                       [o EXCEPT !.pass2_calls = @ + 1, !.list_failed = 2]]
       /\ UNCHANGED <<now, inv, emails, harvestOnly, ledgerOnly, pureOnly,
                      upstream, permapeople_plants, canonical>>

\* complete_run(db, run, stats): the counters a DataSourceRun has
CompletedRun(row, stats) ==
    [row EXCEPT !.status = "completed", !.new_species = stats.new_species,
                !.updated = stats.updated, !.unchanged = stats.unchanged,
                !.skipped = stats.skipped]

\* Finish: await complete_run(db, run, stats); await db.commit()
PpFinish ==
    /\ pp_inv.pc = "finish"
    /\ data_source_runs' = [data_source_runs EXCEPT ![pp_inv.run] =
                              CompletedRun(@, pp_inv.stats)]
    /\ pp_inv' = [pp_inv EXCEPT !.pc = "report"]
    /\ UNCHANGED <<now, inv, emails, faults, harvestOnly, plant, permapeople_rows,
                   permapeople_height, perenual_rows, rule, rules_order, pureOnly,
                   upstream, permapeople_plants, canonical, pp_obs>>

\* the counts, the coverage and send_fetch_report
PpReport ==
    /\ pp_inv.pc = "report"
    /\ emails' = emails \cup {[kind |-> "report", job |-> "fetch_permapeople",
                               run |-> pp_inv.run]}
    /\ pp_inv' = IdlePp
    /\ UNCHANGED <<now, inv, faults, harvestOnly, ledgerOnly, pureOnly,
                   upstream, permapeople_plants, canonical, pp_obs>>

\* Something other than an insert or a list call raises in a pass (the
\* commit of a page, a query): the page in progress is not stored and the
\* top-level handler runs.
PpRaises ==
    /\ pp_inv.pc \in {"pass1", "pass2"}
    /\ faults < MaxFaults
    /\ faults' = faults + 1
    /\ pp_inv' = [pp_inv EXCEPT !.pc = "handler"]
    /\ ObservePp("interrupted", TRUE)
    /\ UNCHANGED <<now, inv, emails, harvestOnly, ledgerOnly, pureOnly,
                   upstream, permapeople_plants, canonical>>

\* except Exception: rollback; fail_run(traceback); commit; error email;
\* raise
PpHandler ==
    /\ pp_inv.pc = "handler"
    /\ \E n \in ErrorLengths :
         data_source_runs' = [data_source_runs EXCEPT ![pp_inv.run] = fail_run(@, n)]
    /\ emails' = emails \cup {[kind |-> "error", job |-> "fetch_permapeople",
                               run |-> pp_inv.run]}
    /\ pp_inv' = IdlePp
    /\ UNCHANGED <<now, inv, faults, harvestOnly, plant, permapeople_rows,
                   permapeople_height, perenual_rows, rule, rules_order, pureOnly,
                   upstream, permapeople_plants, canonical, pp_obs>>

\* The worker dies in a pass: the Run stays running, what was committed
\* stays.
PpCrash ==
    /\ pp_inv.pc \in {"pass1", "pass2"}
    /\ faults < MaxFaults
    /\ faults' = faults + 1
    /\ pp_inv' = IdlePp
    /\ ObservePp("interrupted", TRUE)
    /\ UNCHANGED <<now, inv, emails, harvestOnly, ledgerOnly, pureOnly,
                   upstream, permapeople_plants, canonical>>

\* An hour passes while a Run left running blocks the next invocation.
PpTick ==
    /\ now < MaxTime
    /\ pp_inv.pc = "idle"
    /\ IsSourceRunning(data_source_runs, "permapeople", now)
    /\ now' = now + 1
    /\ UNCHANGED <<inv, emails, faults, harvestOnly, ledgerOnly, pureOnly, catalogOnly>>

\* The catalog changes between invocations: an item appears with version
\* 1, or an item gets a next version or another image.
UpstreamChange ==
    /\ pp_inv.pc = "idle"
    /\ upstream.changes < MaxChanges
    /\ \E id \in PpIds, image \in Images :
         LET item == upstream.items[id]
         IN \E version \in (IF item.live THEN {item.version, item.version + 1} ELSE {1})
                           \cap 1..MaxVersion :
              upstream' = [items |-> [upstream.items EXCEPT ![id] =
                                        [live |-> TRUE, version |-> version,
                                         image |-> image, changed_at |-> now]],
                           changes |-> upstream.changes + 1]
    /\ UNCHANGED <<now, inv, emails, faults, harvestOnly, ledgerOnly, pureOnly,
                   pp_inv, permapeople_plants, canonical, pp_obs>>

\* The catalog when the harvester is deployed: some items, each older than
\* any fetch, and the plants table of the users.
InitCatalog ==
    /\ InitTables
    /\ arg = NoCall
    /\ out = NoCall
    /\ plant = [image_url |-> NULL, height_inches |-> NULL, bloom_season |-> NULL,
                cultivar_name |-> 1, data_sources |-> {}]
    /\ permapeople_rows = <<>>
    /\ permapeople_height = <<>>
    /\ perenual_rows = <<>>
    /\ rule = <<>>
    /\ rules_order = SEEDED_ORDER
    /\ pp_inv = IdlePp
    /\ upstream \in { [items |-> items, changes |-> 0] :
                      items \in [PpIds -> {NoItem} \cup
                                  [live : {TRUE}, version : {1}, image : Images,
                                   changed_at : {NULL}]] }
    /\ permapeople_plants = [id \in PpIds |-> NoRow]
    /\ canonical = InitialCanonical
    /\ pp_obs = <<>>

NextCatalog ==
    \/ PpTrigger
    \/ PpGuard
    \/ PpCount
    \/ Pass1Page
    \/ Pass1ListFails
    \/ Pass2Gate
    \/ Pass2Page
    \/ Pass2ListFails
    \/ PpFinish
    \/ PpReport
    \/ PpRaises
    \/ PpHandler
    \/ PpCrash
    \/ PpTick
    \/ UpstreamChange

\* fetch_permapeople alone, page by page, against a catalog that changes.
SpecCatalog == InitCatalog /\ [][NextCatalog]_vars

\* =============================================================== claims
Rows == 1..Len(seeder_runs)
LedgerRows == 1..Len(data_source_runs)

MinOf(S) == CHOOSE x \in S : \A y \in S : x <= y

\* The invocation of SeederRun k returned or raised (it did not die).
Ended(k) == ~Live(k) /\ ~obs[k].crashed

\* ... and it returned.
EndedNormally(k) == Ended(k) /\ ~obs[k].raised

\* error_message values that report a spent budget
BudgetReasons == {"budget", "budget_backfill", "budget_final_backfill"}

\* emails of one kind sent by the invocation of SeederRun k
EmailsOf(k, kind) ==
    { e \in emails : e.run = k /\ e.kind = kind /\ e.job \in HarvestJobs }

\* The invocation holds a Run that is still running.
HoldsRunning(i) ==
    /\ inv[i].run # 0
    /\ IF inv[i].job \in HarvestJobs
       THEN seeder_runs[inv[i].run].status = "running"
       ELSE data_source_runs[inv[i].run].status = "running"

\* C1 (SpecRace): at most one invocation of a job is past its guard and
\* holds a running Run, in every interleaving of concurrent triggers.
C1_MutualExclusion ==
    \A i, j \in Procs :
        (i # j /\ inv[i].job = inv[j].job) => ~(HoldsRunning(i) /\ HoldsRunning(j))

\* A fresh running Run of the invocation's own job exists.
OwnRunActive(i) ==
    IF inv[i].job \in HarvestJobs
    THEN \E k \in Rows :
            /\ obs[k].job = inv[i].job
            /\ seeder_runs[k].status = "running"
            /\ seeder_runs[k].started_at >= now - STALE_THRESHOLD
    ELSE \E k \in LedgerRows :
            /\ data_source_runs[k].source = JobSource(inv[i].job)
            /\ data_source_runs[k].status = "running"
            /\ data_source_runs[k].started_at >= now - STALE_THRESHOLD

\* C2: an invocation whose guard finds a fresh running Run of its job
\* returns at once and changes nothing: no Run, no record, no email, no
\* queued retry, no external call.
C2_NoOpSecondTrigger ==
    [][\A i \in Procs :
          (inv[i].pc \in {"guard", "l_guard"} /\ inv'[i] # inv[i] /\ OwnRunActive(i))
          => /\ inv'[i] = IdleInv
             /\ UNCHANGED <<harvestOnly, ledgerOnly, emails>>]_vars

\* A second trigger stands at its guard while a Run of its job, left
\* running by a dead invocation, is still fresh.
C2_Witness ==
    /\ inv[1].pc = "guard"
    /\ OwnRunActive(1)
    /\ \E k \in Rows : obs[k].crashed /\ seeder_runs[k].current_page >= 1

\* C3: a Run that resumes from an earlier Run asks for the page after that
\* Run's committed current_page as its first list page, and no upstream id
\* ever has two Source Records.
C3_Resumption ==
    /\ \A k \in Rows :
          (obs[k].prev # 0 /\ obs[k].first_page # 0)
          => obs[k].first_page = seeder_runs[obs[k].prev].current_page + 1
    /\ \A id \in SpeciesIds : perenual_plants[id] <= 1

\* A Run stopped after page k < n and the next Run asked for page k + 1.
C3_Witness ==
    \E k \in Rows :
        /\ obs[k].prev # 0
        /\ seeder_runs[obs[k].prev].status = "failed"
        /\ seeder_runs[obs[k].prev].current_page \in 1..(LastPage - 1)
        /\ obs[k].first_page = seeder_runs[obs[k].prev].current_page + 1
        /\ seeder_runs[k].current_page = obs[k].first_page

\* every species of pages from..to is stored by the job
PagesStored(job, from, to) ==
    \A p \in from..to : \A id \in SpeciesOnPage(p) :
        IF job = "fetch_perenual" THEN perenual_plants[id] >= 1
        ELSE plants[id] # "absent"

\* C4: with more than REQUEST_BUDGET pages left and no rate limit, an
\* invocation that returns made exactly REQUEST_BUDGET calls, left its Run
\* failed for the budget, with current_page at the last page it committed in
\* full (start page - 1 + budget for fetch_perenual).
C4_BudgetEnforcement ==
    \A k \in Rows :
        (/\ EndedNormally(k)
         /\ ~obs[k].rate_limited
         /\ obs[k].start_page - 1 + REQUEST_BUDGET < LastPage)
        => /\ seeder_runs[k].status = "failed"
           /\ seeder_runs[k].error_message \in BudgetReasons
           /\ obs[k].calls = REQUEST_BUDGET
           /\ seeder_runs[k].requests_used = REQUEST_BUDGET
           /\ obs[k].job = "fetch_perenual"
                => seeder_runs[k].current_page = obs[k].start_page - 1 + REQUEST_BUDGET
           /\ seeder_runs[k].current_page >= obs[k].start_page - 1
           /\ PagesStored(obs[k].job, obs[k].start_page, seeder_runs[k].current_page)

\* fetch_perenual stopped by its budget after REQUEST_BUDGET pages.
C4_Witness ==
    \E k \in Rows :
        /\ EndedNormally(k)
        /\ obs[k].job = "fetch_perenual"
        /\ ~obs[k].rate_limited
        /\ obs[k].start_page = 1
        /\ obs[k].calls = REQUEST_BUDGET
        /\ seeder_runs[k].error_message = "budget"
        /\ seeder_runs[k].current_page = REQUEST_BUDGET

\* The first external call of the invocation of Run k was rate-limited.
QuotaCase(k) ==
    /\ obs[k].rate_limited
    /\ obs[k].calls = 1
    /\ seeder_runs[k].requests_used = 0

\* the Runs of the retry chain started by Run c
ChainRows(c) == { k \in Rows : obs[k].chain = c }

\* The initial invocation and every configured retry ran, each rate-limited
\* on its first call, and the final retry returned.
ChainComplete(c) ==
    /\ obs[c].retry_count = 0
    /\ \A n \in 0..Len(RETRY_HOURS_UTC) :
          \E k \in ChainRows(c) : obs[k].retry_count = n /\ QuotaCase(k)
    /\ \E k \in ChainRows(c) :
          obs[k].retry_count = Len(RETRY_HOURS_UTC) /\ EndedNormally(k)

\* the quota-not-reset reports sent along the chain of Run c
ChainReports(c) == { e \in emails : e.kind = "quota" /\ e.run \in ChainRows(c) }

C6_RateLimitAfterProgress ==
    \A k \in Rows :
        (/\ obs[k].rate_limited
         /\ seeder_runs[k].requests_used > 0
         /\ EndedNormally(k))
        => /\ seeder_runs[k].status = "failed"
           /\ seeder_runs[k].error_message \in BudgetReasons \cup {"rate_limited"}
           /\ ~obs[k].enqueued
           /\ ~obs[k].enqueue_failed
           /\ EmailsOf(k, "daily") # {}
           /\ EmailsOf(k, "quota") = {}

\* C7: once a Run has left status running, no later step changes its
\* status or any other field.
C7_RunLifecycle ==
    [][/\ \A k \in Rows :
            seeder_runs[k].status # "running" => seeder_runs'[k] = seeder_runs[k]
       /\ \A k \in LedgerRows :
            data_source_runs[k].status # "running"
            => data_source_runs'[k] = data_source_runs[k]]_vars

\* Every running Run the guard of the invocation looks at is more than
\* 2 hours old.
OnlyStaleRuns(i) ==
    IF inv[i].job \in HarvestJobs
    THEN \A k \in Rows :
            seeder_runs[k].status = "running"
            => seeder_runs[k].started_at < now - STALE_THRESHOLD
    ELSE \A k \in LedgerRows :
            (/\ data_source_runs[k].source = JobSource(inv[i].job)
             /\ data_source_runs[k].status = "running")
            => data_source_runs[k].started_at < now - STALE_THRESHOLD

\* The latest SeederRun is running and more than 2 hours old.
LastRunStale ==
    /\ seeder_runs # <<>>
    /\ seeder_runs[Len(seeder_runs)].status = "running"
    /\ seeder_runs[Len(seeder_runs)].started_at < now - STALE_THRESHOLD

\* C8: running Runs older than 2 hours never make a guard skip; the
\* invocation goes on, takes the stale Run's current_page + 1 as its start
\* page and creates a new running Run there.
C8_Staleness ==
    [][\A i \in Procs :
          /\ (inv[i].pc = "guard" /\ inv'[i] # inv[i] /\ OnlyStaleRuns(i))
             => inv'[i].pc = "last"
          /\ (inv[i].pc = "l_guard" /\ inv'[i] # inv[i] /\ OnlyStaleRuns(i))
             => inv'[i].pc = "l_start"
          /\ (inv[i].pc = "last" /\ inv'[i] # inv[i] /\ LastRunStale)
             => /\ inv'[i].pc = "start"
                /\ inv'[i].page = seeder_runs[Len(seeder_runs)].current_page + 1
          /\ (inv[i].pc = "start" /\ inv'[i] # inv[i])
             => /\ Len(seeder_runs') = Len(seeder_runs) + 1
                /\ seeder_runs'[Len(seeder_runs')].status = "running"
                /\ seeder_runs'[Len(seeder_runs')].current_page = inv[i].page - 1]_vars

\* A fresh invocation runs from the page after a stale Run's cursor.
C8_Witness ==
    \E k \in Rows :
        /\ inv[1].run = k
        /\ inv[1].job \in HarvestJobs
        /\ seeder_runs[k].status = "running"
        /\ obs[k].prev # 0
        /\ seeder_runs[obs[k].prev].status = "running"
        /\ seeder_runs[obs[k].prev].started_at < now - STALE_THRESHOLD
        /\ seeder_runs[obs[k].prev].current_page >= 1
        /\ obs[k].first_page = seeder_runs[obs[k].prev].current_page + 1

\* An enrichment Run has completed before.
MergedBefore ==
    \E k \in LedgerRows :
        /\ data_source_runs[k].source = "enrichment"
        /\ data_source_runs[k].status = "completed"

\* C9 (SpecMerge): with source rows and rule unchanged, a second
\* enrich_plants run writes no field, leaves data_sources alone and counts
\* no row as enriched.
C9_MergeIdempotent ==
    [][\A i \in Procs :
          (/\ inv[i].pc = "l_work"
           /\ inv[i].job = "enrich_plants"
           /\ inv'[i].pc = "l_complete"
           /\ MergedBefore)
          => /\ plant' = plant
             /\ inv'[i].stats.enriched = 0
             /\ inv'[i].stats.fields_filled = 0]_vars

\* the orderings of a priority list
Orderings(pr) ==
    { q \in PriorityLists :
        Len(q) = Len(pr) /\ { q[j] : j \in 1..Len(q) } = { pr[j] : j \in 1..Len(pr) } }

\* C10 as stated (SpecMerge): apply_priority returns the value of the first
\* source of the priority list that has one, null only if no source at all
\* has one, and with a single source holding data that value under every
\* ordering of the list.
C10_Priority_AsStated ==
    \A n \in 1..Len(JoinRows(permapeople_rows, perenual_rows)) :
        LET sources == Normalized(JoinRows(permapeople_rows, perenual_rows)[n])
            pr == Priority(rule)
            holders == { j \in 1..Len(pr) : pr[j] \in DOMAIN sources }
        IN /\ holders # {}
                => apply_priority(sources, pr) = sources[pr[MinOf(holders)]]
           /\ apply_priority(sources, pr) = NULL => DOMAIN sources = {}
           /\ Cardinality(DOMAIN sources) = 1
                => \A q \in Orderings(pr) : \A src \in DOMAIN sources :
                      apply_priority(sources, q) = sources[src]

\* C10, amended (SpecMerge): apply_priority returns the value of the first
\* source of the priority list that has one, null exactly when no source
\* named in the list has one, and with a single source holding data that
\* value under every ordering of a list that names the source.
C10_Priority ==
    \A n \in 1..Len(JoinRows(permapeople_rows, perenual_rows)) :
        LET sources == Normalized(JoinRows(permapeople_rows, perenual_rows)[n])
            pr == Priority(rule)
            holders == { j \in 1..Len(pr) : pr[j] \in DOMAIN sources }
        IN /\ holders # {}
                => apply_priority(sources, pr) = sources[pr[MinOf(holders)]]
           /\ holders = {} <=> apply_priority(sources, pr) = NULL
           /\ Cardinality(DOMAIN sources) = 1
                => \A q \in Orderings(pr) : \A src \in DOMAIN sources :
                      (\E j \in 1..Len(q) : q[j] = src)
                      => apply_priority(sources, q) = sources[src]

\* Both sources hold different images and the rule puts perenual first: the
\* merged record carries perenual's.
C10_Witness ==
    /\ permapeople_rows = <<1>>
    /\ perenual_rows = <<2>>
    /\ rule = <<"perenual", "permapeople">>
    /\ plant.image_url = 2
    /\ plant.data_sources = SourceNames
    /\ MergedBefore

\* the lists of the sources the priority list names, in its order
RECURSIVE ListedConcat(_, _)
ListedConcat(sources, pr) ==
    IF pr = <<>> THEN <<>>
    ELSE (IF Head(pr) \in DOMAIN sources THEN sources[Head(pr)] ELSE <<>>)
         \o ListedConcat(sources, Tail(pr))

\* the words (letter case apart) of every source's list
AllWords(sources) ==
    UNION { { sources[src][j].word : j \in 1..Len(sources[src]) } : src \in DOMAIN sources }

\* where a word first occurs in a list
FirstAt(list, word) == MinOf({ j \in 1..Len(list) : list[j].word = word })

\* the list apply_union returned (None read as no item)
UnionResult == IF out.val = None THEN <<>> ELSE out.val[1]

\* The result lists each word once, in the spelling and at the rank of its
\* first occurrence in the concatenation cat.
FirstOccurrences(r, cat) ==
    /\ \A a, b \in 1..Len(r) : a # b => r[a].word # r[b].word
    /\ \A a \in 1..Len(r) :
          /\ \E j \in 1..Len(cat) : cat[j].word = r[a].word
          /\ r[a] = cat[FirstAt(cat, r[a].word)]
    /\ \A a, b \in 1..Len(r) :
          a < b => FirstAt(cat, r[a].word) < FirstAt(cat, r[b].word)

\* C11 as stated (SpecPure): apply_union returns the items of all sources'
\* lists, concatenated in source_priority order, case-insensitive
\* duplicates removed, each kept item in the casing and position of its
\* first occurrence.
C11_Union_AsStated ==
    out.fn = "apply_union"
    => /\ { UnionResult[a].word : a \in 1..Len(UnionResult) } = AllWords(arg.sources)
       /\ FirstOccurrences(UnionResult, ListedConcat(arg.sources, arg.source_priority))

\* C11, amended (SpecPure): apply_union returns the items of the lists of
\* the sources source_priority names, concatenated in its order,
\* case-insensitive duplicates removed, each kept item in the casing and
\* position of its first occurrence; None, never an empty list, when
\* there is no item.
C11_Union ==
    out.fn = "apply_union"
    => LET cat == ListedConcat(arg.sources, arg.source_priority)
       IN /\ { UnionResult[a].word : a \in 1..Len(UnionResult) }
               = { cat[j].word : j \in 1..Len(cat) }
          /\ FirstOccurrences(UnionResult, cat)
          /\ out.val # Some(<<>>)

\* A = [Rose, Mint], B = [rose, Basil], priority [A, B] gave
\* [Rose, Mint, Basil].
C11_Witness ==
    /\ out.fn = "apply_union"
    /\ arg.source_priority = <<"permapeople", "perenual">>
    /\ DOMAIN arg.sources = SourceNames
    /\ arg.sources["permapeople"] = <<[word |-> 1, upper |-> TRUE], [word |-> 2, upper |-> TRUE]>>
    /\ arg.sources["perenual"] = <<[word |-> 1, upper |-> FALSE], [word |-> 3, upper |-> TRUE]>>
    /\ out.val = Some(<<[word |-> 1, upper |-> TRUE], [word |-> 2, upper |-> TRUE],
                        [word |-> 3, upper |-> TRUE]>>)

\* the source whose value apply_priority returns for a join row, if any
Winners(row) ==
    LET sources == Normalized(row)
        pr == Priority(rule)
        holders == { j \in 1..Len(pr) : pr[j] \in DOMAIN sources }
    IN IF holders = {} THEN {} ELSE { pr[MinOf(holders)] }

\* the sources whose value won a resolution and is the value stored
Contributors ==
    UNION { { src \in Winners(JoinRows(permapeople_rows, perenual_rows)[n]) :
                Normalized(JoinRows(permapeople_rows, perenual_rows)[n])[src] = plant.image_url }
            : n \in 1..Len(JoinRows(permapeople_rows, perenual_rows)) }

\* An enrich_plants invocation has processed the record.
Processed(i) ==
    inv[i].job = "enrich_plants" /\ inv[i].pc \in {"l_complete", "l_report"}

\* C12 (SpecMerge): once enrich_plants has processed the record, every
\* source in data_sources contributed the value stored (a source whose
\* value lost the resolution is not listed), and a source whose value the
\* run wrote is listed.
C12_Provenance ==
    \A i \in Procs :
        Processed(i)
        => /\ plant.data_sources \subseteq Contributors
           /\ inv[i].stats.fields_filled > 0 => Contributors \subseteq plant.data_sources

\* C13 (SpecPure): for every raw string a normalizer returns a value or
\* null; it never raises.
C13_NormalizersNeverRaise ==
    out.fn \in NormalizerNames => out.val # "raises"


\* What the zone string of the call says: a range of two endpoints, one
\* zone, or neither.
ZoneIsRange == out.fn = "normalize_hardiness_zones" /\ ZoneRangeMatch(arg.raw).ok

ZoneIsSingle == out.fn = "normalize_hardiness_zones" /\ ZoneSingleMatch(arg.raw)

ZoneStart == parse_zone_endpoint(ZoneRangeMatch(arg.raw).g1)

ZoneEnd == parse_zone_endpoint(ZoneRangeMatch(arg.raw).g2)

\* The position of a zone on the scale 0a, 0b, 1a, ...; an endpoint without
\* a sub-letter stands at dflt.
ZonePos(z, dflt) == 2 * z.num + SubRank(IF z.sub = "" THEN dflt ELSE z.sub)

ZoneRangeValid ==
    /\ ZoneStart.num \in 0..13
    /\ ZoneEnd.num \in 0..13
    /\ ZonePos(ZoneStart, "a") <= ZonePos(ZoneEnd, "b")

\* C15: normalize_hardiness_zones returns null for a single zone outside
\* 0..13, for a range with an endpoint outside 0..13 and for a range whose
\* start is greater than its end (same-number ranges such as '7b-7a'
\* included), and it never returns an empty list.
C15_ZoneRejection ==
    out.fn = "normalize_hardiness_zones" =>
        /\ (ZoneIsSingle /\ parse_zone_endpoint(arg.raw).num \notin 0..13) => out.val = None
        /\ (ZoneIsRange /\ ~ZoneRangeValid) => out.val = None
        /\ out.val # Some(<<>>)

\* C16: for a valid range without sub-letters the result is the ascending
\* list of the whole zone numbers from start to end; with a sub-letter on
\* either endpoint it is the ascending list of the a/b sub-zones from the
\* start (default a) to the end (default b), both included.
C16_ZoneExpansion ==
    (ZoneIsRange /\ ZoneRangeValid) =>
        /\ out.val # None
        /\ LET r == out.val[1]
               whole == ZoneStart.sub = "" /\ ZoneEnd.sub = ""
           IN IF whole
              THEN /\ Len(r) = ZoneEnd.num - ZoneStart.num + 1
                   /\ \A k \in 1..Len(r) : r[k] = [num |-> ZoneStart.num + k - 1, sub |-> ""]
              ELSE /\ Len(r) = ZonePos(ZoneEnd, "b") - ZonePos(ZoneStart, "a") + 1
                   /\ \A k \in 1..Len(r) :
                        /\ r[k].sub \in {"a", "b"}
                        /\ ZonePos(r[k], "a") = ZonePos(ZoneStart, "a") + k - 1

\* '4a-7b' gives [4a, 4b, 5a, 5b, 6a, 6b, 7a, 7b]; '1-11' gives [1, ..., 11].
C16_Witness ==
    /\ out.fn = "normalize_hardiness_zones"
    /\ arg.raw = <<"4", "a", "-", "7", "b">>
    /\ out.val = Some(<<[num |-> 4, sub |-> "a"], [num |-> 4, sub |-> "b"],
                        [num |-> 5, sub |-> "a"], [num |-> 5, sub |-> "b"],
                        [num |-> 6, sub |-> "a"], [num |-> 6, sub |-> "b"],
                        [num |-> 7, sub |-> "a"], [num |-> 7, sub |-> "b"]>>)


\* the join of the record's source rows, and the height column along it
Join == JoinRows(permapeople_rows, perenual_rows)

Heights == JoinHeights(permapeople_height, perenual_rows)

\* In this step invocation i runs the batch loop of enrich_plants.
Enriches(i) ==
    inv[i].pc = "l_work" /\ inv[i].job = "enrich_plants" /\ inv'[i].pc = "l_complete"

MaxOf(S) == CHOOSE x \in S : \A y \in S : y <= x

\* Row n holds a height string that the normalizer turns into no value.
Unparsable(n) ==
    Heights[n] # None /\ parse_measurement_to_inches(Heights[n][1]) # "value"

\* the histogram key of row n's height: the trimmed string
KeyOf(n) == <<"height_inches", Strip(Heights[n][1])>>

\* the rows whose image_url resolves to a value
Resolving == { n \in 1..Len(Join) : Winners(Join[n]) # {} }

\* the image_url row n resolves to
ResolvedImage(n) == Normalized(Join[n])[CHOOSE src \in Winners(Join[n]) : TRUE]

\* C14 (SpecFields): a height string that cannot be normalized adds one to
\* the histogram entry of (height_inches, trimmed string) per occurrence,
\* is left out of the resolution of height_inches, does not keep the
\* record's other ruled field, image_url, from being resolved and written,
\* and is not counted as an error.
C14_NormalizationFailure ==
    [][\A i \in Procs :
          Enriches(i)
          => /\ \A n \in 1..Len(Join) :
                  Unparsable(n)
                  => /\ KeyOf(n) \in DOMAIN inv'[i].unmapped
                     /\ inv'[i].unmapped[KeyOf(n)] =
                          Cardinality({ m \in 1..Len(Join) : Unparsable(m) /\ KeyOf(m) = KeyOf(n) })
             /\ inv'[i].stats.errors = 0
             /\ (\A n \in 1..Len(Join) : Heights[n] # None => Unparsable(n))
                  => plant'.height_inches = plant.height_inches
             /\ Resolving # {} => plant'.image_url = ResolvedImage(MaxOf(Resolving))]_vars

\* Processing row n raises.
Raises(n) ==
    Heights[n] # None /\ parse_measurement_to_inches(Heights[n][1]) = "raises"

\* C17 (SpecFields): an exception while a record is processed adds one to
\* errors and keeps no other row of the batch from being processed; when
\* every row of the record raises, no field of it is changed by the commit
\* and fields_filled counts nothing.
C17_RecordIsolation ==
    [][\A i \in Procs :
          Enriches(i)
          => /\ inv'[i].stats.errors = Cardinality({ n \in 1..Len(Join) : Raises(n) })
             /\ inv'[i].stats.errors + inv'[i].stats.enriched
                  + inv'[i].stats.unchanged + inv'[i].stats.skipped = Len(Join)
             /\ (\A n \in 1..Len(Join) : Raises(n))
                  => /\ plant' = plant
                     /\ inv'[i].stats.fields_filled = 0]_vars

\* the record and counters as the loop leaves them after the first n rows
After(i, n) ==
    MergeRows([plant |-> plant, stats |-> inv[i].stats, unmapped |-> inv[i].unmapped],
              SubSeq(Join, 1, n), SubSeq(Heights, 1, n), rule, rules_order)

\* the fields whose stored value row n replaces
WrittenIn(i, n) ==
    { f \in {"image_url", "height_inches", "bloom_season", "cultivar_name"} :
        After(i, n).plant[f] # After(i, n - 1).plant[f] }

\* Row n has a linked Source Record.
Linked(n) == Join[n].permapeople # <<>> \/ Join[n].perenual # <<>>

\* C18 (SpecFields): a run counts the rows without a linked Source Record
\* as skipped, the rows in which at least one field was written as
\* enriched, the linked rows in which none was written as unchanged, and
\* the four counters add up to the rows processed.
C18_Classification ==
    [][\A i \in Procs :
          Enriches(i)
          => /\ inv'[i].stats.skipped = Cardinality({ n \in 1..Len(Join) : ~Linked(n) })
             /\ inv'[i].stats.enriched =
                  Cardinality({ n \in 1..Len(Join) : WrittenIn(i, n) # {} })
             /\ inv'[i].stats.unchanged =
                  Cardinality({ n \in 1..Len(Join) : Linked(n) /\ WrittenIn(i, n) = {} })
             /\ inv'[i].stats.errors + inv'[i].stats.enriched
                  + inv'[i].stats.unchanged + inv'[i].stats.skipped = Len(Join)]_vars

\* the number of field writes of the rows up to n
RECURSIVE Writes(_, _)
Writes(i, n) == IF n = 0 THEN 0 ELSE Writes(i, n - 1) + Cardinality(WrittenIn(i, n))

\* the heights the rows of the record normalize to
ParsedHeights ==
    { InchesOf(Heights[n][1]) :
        n \in { m \in 1..Len(Join) : Heights[m] # None /\ ~Unparsable(m) } }

\* C19 (SpecFields): a field that changes takes a non-null value some row
\* resolves to; a stored value is never cleared, and stays when every row
\* resolves to null; bloom_season (ruled, no source mapping) and
\* cultivar_name (no rule) stay; fields_filled grows by one per write.
C19_WritePolicy ==
    [][\A i \in Procs :
          Enriches(i)
          => /\ plant'.image_url # plant.image_url
                  => /\ plant'.image_url # NULL
                     /\ \E n \in Resolving : plant'.image_url = ResolvedImage(n)
             /\ plant'.height_inches # plant.height_inches
                  => /\ plant'.height_inches # NULL
                     /\ plant'.height_inches \in ParsedHeights
             /\ plant.image_url # NULL => plant'.image_url # NULL
             /\ plant.height_inches # NULL => plant'.height_inches # NULL
             /\ Resolving = {} => plant'.image_url = plant.image_url
             /\ ParsedHeights = {} => plant'.height_inches = plant.height_inches
             /\ (\A n \in Resolving : ResolvedImage(n) = plant.image_url)
                  => plant'.image_url = plant.image_url
             /\ plant'.bloom_season = plant.bloom_season
             /\ plant'.cultivar_name = plant.cultivar_name
             /\ inv'[i].stats.fields_filled = Writes(i, Len(Join))]_vars

\* A record with a stored image, whose only source row has no image and
\* the height '1': the image stays, the height is written and counted once.
C19_Witness ==
    /\ Processed(1)
    /\ permapeople_rows = <<NULL>>
    /\ permapeople_height = <<Some(<<"1">>)>>
    /\ perenual_rows = <<>>
    /\ plant.image_url = 1
    /\ plant.height_inches = InchesOf(<<"1">>)
    /\ plant.data_sources = {"permapeople"}
    /\ inv[1].stats.fields_filled = 1
    /\ inv[1].stats.enriched = 1


\* Row k is a seed_plants run that stopped in the middle of a page.
CutShort(k) == obs[k].job = "seed_plants" /\ obs[k].cut_page > 0

\* C20 (Spec): when seed_plants stops in the middle of a page, the records
\* it inserted from that page are in the table, current_page stays below
\* that page, and the next invocation asks for that page first and calls
\* fetch_species_detail for none of the records already inserted.
C20_CommitGranularity ==
    \A k \in Rows :
        CutShort(k)
        => /\ \A id \in obs[k].cut_inserted : plants[id] # "absent"
           /\ seeder_runs[k].current_page < obs[k].cut_page
           /\ \A n \in Rows :
                (obs[n].job = "seed_plants" /\ obs[n].prev = k)
                => /\ obs[n].first_page \in {0, obs[k].cut_page}
                   /\ obs[n].detailed \cap obs[k].cut_inserted = {}

\* ------------------------------------------------------------------ C24
\* C24: a harvest invocation only creates Canonical Records: no step
\* changes a field value of a Canonical Record that already exists, and
\* no step deletes one.
C24_CanonicalOwnership ==
    [][\A id \in SpeciesIds :
          plants[id] # "absent" => plants'[id] = plants[id]]_vars

\* ------------------------------------------------------------------ C29
\* C29: in every state of a harvest invocation requests_used is at most
\* the request budget and equals the number of external calls (list page
\* or detail) that have returned in this invocation, and the invocation
\* has attempted at most as many external calls as the budget.
C29_BudgetAccounting ==
    \A k \in Rows :
        /\ seeder_runs[k].requests_used <= REQUEST_BUDGET
        /\ seeder_runs[k].requests_used = obs[k].succeeded
        /\ obs[k].calls <= REQUEST_BUDGET

\* ------------------------------------------------------------------ C22
\* the top-level handler of the harvest invocation in slot i runs
HarvestHandles(i) ==
    /\ inv[i].pc = "handler"
    /\ obs'[inv[i].run].raised

\* the top-level handler of fetch_permapeople or enrich_plants runs
LedgerHandles(i) ==
    /\ inv[i].pc = "l_handler"
    /\ data_source_runs'[inv[i].run].status = "failed"

\* C22: when an unexpected exception escapes the body of a harvest or
\* merge invocation, what was committed (pages, batches, current_page)
\* is retained, the Run is persisted failed with an error text of at most
\* 4000 characters, an error report is sent and the invocation ends by
\* raising.
C22_UnexpectedError ==
    [][\A i \in Procs :
          /\ HarvestHandles(i)
              => /\ perenual_plants' = perenual_plants
                 /\ plants' = plants
                 /\ seeder_runs'[inv[i].run].current_page
                        = seeder_runs[inv[i].run].current_page
                 /\ seeder_runs'[inv[i].run].status = "failed"
                 /\ seeder_runs'[inv[i].run].error_len <= ERROR_DETAIL_LIMIT
                 /\ Email(i, "error") \in emails'
                 /\ inv'[i].pc = "idle"
          /\ LedgerHandles(i)
              => /\ plant' = plant
                 /\ permapeople_rows' = permapeople_rows
                 /\ data_source_runs'[inv[i].run].error_len <= ERROR_DETAIL_LIMIT
                 /\ Email(i, "error") \in emails'
                 /\ inv'[i].pc = "idle"]_vars

\* ------------------------------------------------------------------ C30
\* The call is parse_measurement_to_inches with its value.
MeasureCall == out.fn = "measurement_to_inches"

HasX == \E j \in 1..Len(arg.raw) : arg.raw[j] = "x"

\* A single number with an explicit unit, a range, a product.
IsSingle == MeasureCall /\ ~HasX /\ MeasurementMatch(arg.raw).g2 = <<>>
IsRange == MeasureCall /\ ~HasX /\ MeasurementMatch(arg.raw).g2 # <<>>
IsCross == MeasureCall /\ HasX

\* The length a single text denotes, in units of 0.0001 cm.
LengthOf(text) ==
    LET m == MeasurementMatch(text)
        v == FloatHundredths(m.g1)
    IN IF m.g3 = UnitCm THEN v * 100
       ELSE IF m.g3 = UnitM THEN v * 10000
       ELSE IF m.g3 = UnitIn THEN v * 254
       ELSE v * 3048

\* The texts of the model that denote the length len in some unit.
SameLength(len) ==
    (IF len % 10000 = 0 /\ len \div 10000 \in 1..MaxCentimetres
     THEN {Centimetres(len \div 10000), Metres(len \div 10000)} ELSE {})
    \cup (IF len % 25400 = 0 THEN {Inches(len \div 25400)} ELSE {})
    \cup (IF len % 304800 = 0 THEN {Feet(len \div 304800)} ELSE {})

\* C30 (SpecPure): a length with an explicit unit gives the same inches in
\* whatever unit it is written; a range gives what its average gives; a
\* string with an 'x' gives what its first operand gives.
C30_UnitConsistency ==
    /\ IsSingle
        => \A text \in SameLength(LengthOf(arg.raw)) :
              measurement_to_inches(text, arg.default_unit) = out.val
    /\ IsRange
        => LET m == MeasurementMatch(arg.raw)
               sum == (FloatHundredths(m.g1) + FloatHundredths(m.g2)) \div 100
           IN out.val = measurement_to_inches(HalfNumeral(sum) \o m.g3, arg.default_unit)
    /\ IsCross
        => out.val = measurement_to_inches(BeforeX(arg.raw), arg.default_unit)

\* ------------------------------------------------------------------ C26
\* the DataSourceRun rows of the page-by-page model (all fetch_permapeople)
PpRows == 1..Len(pp_obs)

\* C26 (SpecCatalog): an invocation issues a Pass 1 list call only if
\* force_full is set or it found no permapeople_plants row.
C26_Pass1Gating ==
    \A k \in PpRows :
        pp_obs[k].pass1_calls > 0
        => pp_obs[k].force_full \/ pp_obs[k].existing_count = 0

\* An invocation that paginated the catalog in Pass 1 and, after it, an
\* incremental one that found rows, went through Pass 2 and completed
\* without a Pass 1 call.
C26_Witness ==
    \E j \in PpRows, k \in PpRows :
        /\ pp_obs[j].pass1_calls > 1
        /\ pp_obs[j].existing_count = 0
        /\ ~pp_obs[k].force_full
        /\ pp_obs[k].existing_count > 0
        /\ pp_obs[k].pass1_calls = 0
        /\ pp_obs[k].pass2_calls > 0
        /\ data_source_runs[k].status = "completed"

\* ------------------------------------------------------------------ C21
\* C21 (SpecCatalog): a list call that fails with a permanent upstream
\* error ends the invocation: its Run is never marked completed, and after
\* such an error in Pass 1 no Pass 2 list call is made.
C21_PermanentErrorAborts ==
    \A k \in PpRows :
        pp_obs[k].list_failed # 0
        => /\ data_source_runs[k].status # "completed"
           /\ pp_obs[k].list_failed = 1 => pp_obs[k].pass2_calls = 0

\* ------------------------------------------------------------------ C28
\* C28 (SpecCatalog): an insert that raises costs only its own item: the
\* new_species counter of a completed Run equals the number of
\* permapeople_plants rows its page commits stored, and so does the
\* counter of the invocation in progress after each page.
C28_PerItemIsolation ==
    /\ \A k \in PpRows :
         data_source_runs[k].status = "completed"
         => data_source_runs[k].new_species = Cardinality(pp_obs[k].persisted)
    /\ pp_inv.pc \in {"pass1", "pass2_gate", "pass2", "finish"}
         => pp_inv.stats.new_species = Cardinality(pp_obs[pp_inv.run].persisted)

\* ------------------------------------------------------------------ C27
\* what the five counters of the classification add up to
Classified(stats) ==
    stats.new_species + stats.updated + stats.gap_filled + stats.unchanged + stats.errors

\* a step that handled a page of Pass 2
Pass2PageDone == pp_inv.pc = "pass2"
                 /\ pp_obs'[pp_inv.run].returned # pp_obs[pp_inv.run].returned

\* C27 (SpecCatalog): a page of Pass 2 adds one to exactly one of the five
\* counters for each item returned; a stored row whose item has a greater
\* version ends with the item's version and the item's value in every
\* mapped column; any other stored row keeps its version and each value
\* it has, and is left as it was when the item brings nothing for a null
\* column; an item not stored is inserted or counted as an error.
C27_Pass2Classification ==
    [][Pass2PageDone =>
        LET ids == PlantList(upstream.items, pp_inv.last_id, pp_inv.since)
        IN /\ Classified(pp_inv'.stats) = Classified(pp_inv.stats) + Len(ids)
           /\ \A j \in DOMAIN ids :
                LET row == permapeople_plants[ids[j]]
                    item == upstream.items[ids[j]]
                    after == permapeople_plants'[ids[j]]
                IN /\ ~row.stored
                        => after.stored \/ pp_inv'.stats.errors > pp_inv.stats.errors
                   /\ row.stored /\ item.version > row.version
                        => after.version = item.version /\ after.image = item.image
                   /\ row.stored /\ item.version <= row.version
                        => /\ after.version = row.version
                           /\ row.image # 0 => after.image = row.image
                           /\ row.image # 0 \/ item.image = 0 => after = row]_vars

\* ------------------------------------------------------------------ C23
\* the invocation of row j was interrupted in Pass 1 after a page commit
InterruptedInPass1(j) ==
    /\ pp_obs[j].interrupted
    /\ pp_obs[j].since = NULL
    /\ pp_obs[j].pass1_pages > 0

\* C23 (SpecCatalog): once an invocation without force_full has completed
\* after an invocation that was interrupted in Pass 1 with some pages
\* committed, every item the catalog has held unchanged since before the
\* interruption is stored.
C23_RestartResumption ==
    \A j \in PpRows, k \in PpRows :
        /\ j < k
        /\ InterruptedInPass1(j)
        /\ ~pp_obs[k].force_full
        /\ data_source_runs[k].status = "completed"
        => \A id \in PpIds :
             upstream.items[id].live /\ upstream.items[id].changed_at = NULL
             => permapeople_plants[id].stored

\* ------------------------------------------------------------------ C25
\* the records of tbl whose scientific name is the item's, whatever the case
SameScientificName(tbl, id) ==
    { p \in DOMAIN tbl : /\ ItemSciName(id) # None
                         /\ tbl[p].scientific_name # None
                         /\ Lower(tbl[p].scientific_name[1]) = Lower(ItemSciName(id)[1]) }

\* the records of tbl whose common name is the item's, whatever the case
SameCommonName(tbl, id) ==
    { p \in DOMAIN tbl : Lower(tbl[p].common_name) = Lower(ItemCommonName(id)) }

\* the record is the stub made for the item
StubOf(rec, id) == rec.source = "permapeople" /\ rec.external_id = id

\* C25 (SpecCatalog): every stored Source Record links to a Canonical
\* Record that exists; the record is the item's own stub only if no record
\* made before it has the item's scientific name or common name, and
\* otherwise it has the item's scientific name or, when none has, the
\* item's common name.
C25_MatchOrStub ==
    \A id \in PpIds :
        permapeople_plants[id].stored
        => LET p == permapeople_plants[id].plant_id
           IN /\ p \in DOMAIN canonical
              /\ IF StubOf(canonical[p], id)
                 THEN LET earlier == SubSeq(canonical, 1, p - 1)
                      IN /\ SameScientificName(earlier, id) = {}
                         /\ SameCommonName(earlier, id) = {}
                 ELSE \/ p \in SameScientificName(canonical, id)
                      \/ /\ SameScientificName(canonical, id) = {}
                         /\ p \in SameCommonName(canonical, id)

\* ------------------------------------------------------------------ C31
\* a call of _request_with_retry has ended without a transport error other
\* than a timeout
RetryCallEnded ==
    /\ out.fn = "_request_with_retry"
    /\ out.val.outcome # "propagates"

\* the attempt met a timeout or HTTP 429
TransientAnswer(a) == a.kind = "timeout" \/ (a.kind = "response" /\ a.status = 429)

\* What C31 says of the attempts and of the result: at most three
\* attempts, every one before the last met a timeout or a 429, the n-th
\* wait lasts 2^n seconds, a response that is neither is returned below
\* 400 and raised as PermapeopleAPIError from 400 on, and a third timeout
\* or 429 ends in PermapeopleAPIError.
RetryOutcome ==
    LET r == out.val
        last == arg.answers[r.attempts]
    IN /\ r.attempts \in 1..MAX_RETRIES
       /\ \A n \in 1..(r.attempts - 1) : TransientAnswer(arg.answers[n])
       /\ \A n \in 1..Len(r.waits) : r.waits[n] = 2 ^ n
       /\ IF TransientAnswer(last)
          THEN r.attempts = MAX_RETRIES /\ r.outcome = "PermapeopleAPIError"
          ELSE IF last.status >= 400
          THEN r.outcome = "PermapeopleAPIError" /\ r.status = last.status
          ELSE r.outcome = "returns" /\ r.status = last.status

\* C31 as stated (SpecPure): the above, and the waits are those between
\* attempts: one after each attempt but the last.
C31_RetryTerminates_AsStated ==
    RetryCallEnded
    => /\ RetryOutcome
       /\ Len(out.val.waits) = out.val.attempts - 1

\* C31, amended (SpecPure): the above, with one wait after each attempt
\* but the last (2 s, 4 s), and one more of 8 s after a third attempt that
\* met HTTP 429, before PermapeopleAPIError is raised; a third timeout
\* raises without a wait.
C31_RetryTerminates ==
    RetryCallEnded
    => /\ RetryOutcome
       /\ Len(out.val.waits) =
            IF arg.answers[out.val.attempts].kind = "response"
               /\ arg.answers[out.val.attempts].status = 429
            THEN MAX_RETRIES
            ELSE out.val.attempts - 1

\* A call that met a 429, a timeout and a 429: three attempts, waits of 2,
\* 4 and 8 seconds, PermapeopleAPIError.
C31_Witness ==
    /\ RetryCallEnded
    /\ arg.answers[1].status = 429
    /\ arg.answers[2].kind = "timeout"
    /\ arg.answers[3].status = 429
    /\ out.val.attempts = MAX_RETRIES
    /\ out.val.waits = <<2, 4, 8>>
    /\ out.val.outcome = "PermapeopleAPIError"

\* ------------------------------------------------------------------ C32
\* the invocation that is in _handle_quota_not_reset
InQuotaHandler(i) == inv[i].pc = "notify" /\ inv[i].kind = "quota"

\* Runs of one retry chain and queued retries never share a retry_count,
\* and none has one above the number of retry hours.
ChainBounded ==
    /\ \A q \in queue : q.retry_count \in 1..Len(RETRY_HOURS_UTC)
    /\ \A k \in Rows : obs[k].retry_count \in 0..Len(RETRY_HOURS_UTC)
    /\ \A j \in Rows, k \in Rows :
          (j # k /\ obs[j].chain = obs[k].chain) => obs[j].retry_count # obs[k].retry_count
    /\ \A q \in queue, k \in Rows :
          q.chain = obs[k].chain => q.retry_count > obs[k].retry_count

\* The invocation of Run k went through _handle_quota_not_reset and
\* returned.
QuotaHandled(k) ==
    /\ seeder_runs[k].error_message \in {"quota_not_reset", "rate_limited_backfill"}
    /\ EndedNormally(k)

Pass2Decided == pp_inv.pc = "pass2_gate" /\ pp_inv'.pc # "pass2_gate"

\* the ids with a permapeople_plants row
StoredIds == { id \in PpIds : permapeople_plants[id].stored }

\* Pass 1 of the invocation inserted a new species (the insert returned)
\* and skipped none
AllNew == pp_inv.stats.new_species > 0 /\ pp_inv.stats.skipped = 0

\* C33 (SpecCatalog): the invocation goes from the end of Pass 1 straight
\* to Finish exactly when permapeople_plants is empty or its Pass 1
\* inserted a new species and skipped none; otherwise it enters Pass 2 with
\* updated_since set to the greatest fetched_at of the stored rows, and
\* keeps that value for every page of Pass 2.
C33_Pass2Skip ==
    [][/\ Pass2Decided
          => IF StoredIds = {} \/ AllNew
             THEN pp_inv'.pc = "finish" /\ pp_obs'[pp_inv.run].pass2_calls = 0
             ELSE /\ pp_inv'.pc = "pass2"
                  /\ pp_inv'.since \in { permapeople_plants[id].fetched_at : id \in StoredIds }
                  /\ \A id \in StoredIds : permapeople_plants[id].fetched_at <= pp_inv'.since
                  /\ pp_obs'[pp_inv.run].since = pp_inv'.since
       /\ pp_inv.pc = "pass2" /\ pp_inv'.pc = "pass2" => pp_inv'.since = pp_inv.since]_vars

\* One invocation skipped Pass 2 after storing only new species; another,
\* a full rescan that skipped stored rows and stored a new one, made Pass 2
\* list calls with updated_since set.
C33_Witness ==
    \E j \in PpRows, k \in PpRows :
        /\ pp_obs[j].persisted # {}
        /\ pp_obs[j].since = NULL
        /\ data_source_runs[j].status = "completed"
        /\ pp_obs[k].force_full
        /\ pp_obs[k].persisted # {}
        /\ data_source_runs[k].skipped > 0
        /\ pp_obs[k].since # NULL
        /\ pp_obs[k].pass2_calls > 0

\* ------------------------------------------------------------------ C34
\* Run k and every Run before it belong to fetch_perenual invocations that
\* met no rate limit and no error and have returned.
CleanFetches(k) ==
    \A j \in 1..k :
        /\ obs[j].job = "fetch_perenual"
        /\ ~obs[j].rate_limited
        /\ EndedNormally(j)

\* the smaller of two numbers
MinOfTwo(a, b) == IF a <= b THEN a ELSE b

\* ceil(n / d)
CeilDiv(n, d) == (n + d - 1) \div d

\* C34: over an upstream of LastPage pages without rate limits or errors,
\* each fetch_perenual invocation moves current_page on from where the one
\* before left it by min(REQUEST_BUDGET, pages remaining); invocation
\* number ceil(LastPage / REQUEST_BUDGET) leaves its Run complete, the
\* earlier ones leave theirs failed for the budget, and no later one
\* makes a Run.
C34_ListOnlyProgress ==
    \A k \in Rows :
        CleanFetches(k)
        => LET from == IF k = 1 THEN 0 ELSE seeder_runs[k - 1].current_page
           IN /\ obs[k].start_page = from + 1
              /\ seeder_runs[k].current_page
                   = from + MinOfTwo(REQUEST_BUDGET, LastPage - from)
              /\ k <= CeilDiv(LastPage, REQUEST_BUDGET)
              /\ seeder_runs[k].status =
                   IF k = CeilDiv(LastPage, REQUEST_BUDGET) THEN "complete" ELSE "failed"
              /\ k < CeilDiv(LastPage, REQUEST_BUDGET)
                   => seeder_runs[k].error_message = "budget"

\* The catalog was fetched in ceil(LastPage / REQUEST_BUDGET) > 1
\* invocations and the last one left its Run complete on the last page.
C34_Witness ==
    \E k \in Rows :
        /\ k > 1
        /\ k = CeilDiv(LastPage, REQUEST_BUDGET)
        /\ CleanFetches(k)
        /\ seeder_runs[k].status = "complete"
        /\ seeder_runs[k].current_page = LastPage

\* ------------------------------------------------------------------ C35
\* Run k and every Run before it belong to seed_plants invocations that
\* met no rate limit and no error and have returned.
CleanSeeds(k) ==
    \A j \in 1..k :
        /\ obs[j].job = "seed_plants"
        /\ ~obs[j].rate_limited
        /\ EndedNormally(j)

\* The invocation of Run k left the cursor and the plants table exactly as
\* it found them.
NoProgress(k) ==
    /\ seeder_runs[k].current_page = obs[k].start_page - 1
    /\ plants = obs[k].plants_before

\* C35: over a fixed finite catalog without rate limits or errors, repeated
\* seed_plants invocations eventually leave a Run complete, whatever the
\* details are.  The upstream answers and the task are deterministic, so
\* an invocation that ends without completing and leaves the cursor and
\* the plants table as it found them is repeated by every later one:
\* eventual completion requires each such invocation to make progress.
C35_SeedPlantsProgress ==
    \A k \in Rows :
        ( /\ k = Len(seeder_runs)
          /\ CleanSeeds(k)
          /\ seeder_runs[k].status # "complete" )
        => ~NoProgress(k)

RECURSIVE SumCalls(_, _)
SumCalls(o, n) == IF n = 0 THEN 0 ELSE o[n].calls + SumCalls(o, n - 1)

\* the external calls attempted so far, over all invocations
TotalCalls(o) == SumCalls(o, Len(o))

\* C37: once the latest SeederRun is complete it stays the latest and
\* stays complete, and from then on no Run is created, no external call
\* is made and neither job sends an email other than the completion
\* report of that Run by the invocation that completed it.
C37_CompletionFinal ==
    [][CatalogComplete(seeder_runs)
       => /\ CatalogComplete(seeder_runs')
          /\ Len(seeder_runs') = Len(seeder_runs)
          /\ TotalCalls(obs') = TotalCalls(obs)
          /\ \A e \in emails' \ emails :
                 e.job \in HarvestJobs
                 => e.kind = "complete" /\ e.run = Len(seeder_runs)]_vars

\* ------------------------------------------------------------------ C38
\* current_page of the latest SeederRun, 0 when there is none
LatestCursor(runs) == IF Len(runs) = 0 THEN 0 ELSE runs[Len(runs)].current_page

C39_ResumeMonotone ==
    [][/\ Len(seeder_runs') >= Len(seeder_runs)
       /\ \A k \in Rows : seeder_runs'[k].current_page >= seeder_runs[k].current_page
       /\ LatestCursor(seeder_runs') >= LatestCursor(seeder_runs)
       /\ Len(seeder_runs') > Len(seeder_runs)
          => LatestCursor(seeder_runs') = LatestCursor(seeder_runs)
       /\ \A k \in Rows :
              obs[k].first_page = 0 \/ obs[k].succeeded = 0
              => seeder_runs[k].current_page = obs[k].start_page - 1]_vars

\* A Run that committed pages, then a Run that failed on its first call
\* (quota not reset), then a Run that starts where the first one stopped.
C39_Witness ==
    \E k \in Rows :
        /\ k > 2
        /\ seeder_runs[k - 2].current_page > 0
        /\ seeder_runs[k - 1].status = "failed"
        /\ seeder_runs[k - 1].error_message = "quota_not_reset"
        /\ obs[k - 1].succeeded = 0
        /\ seeder_runs[k - 1].current_page = seeder_runs[k - 2].current_page
        /\ obs[k].start_page = seeder_runs[k - 2].current_page + 1

====
